---- MODULE Spec2Model ----
(***************************************************************************)
(* Verification model of the universe registry (nanobot/universe):         *)
(* RegistryState (directory, capability index, points ledger with          *)
(* reservations) and RegistryServer (connection handler, request           *)
(* dispatcher, background sweeps).                                         *)
(***************************************************************************)
EXTENDS Integers, Sequences, FiniteSets, TLC

(***************************************************************************)
(* Bounds of the model                                                     *)
(***************************************************************************)
\* node ids that requests may name; "" is a missing / empty nodeId
NodeIds == {"a", "b"}
NoNode == ""
\* the WebSocket connections the server may hold at one time
Conns == {"c1", "c2"}

\* connections to the relay and to the node service
RelayConns == {"k1", "k2", "k3"}
\* largest points value a request carries (0 is also sent)
MaxPoints == 2
\* cfg.initial_points, the configured grant of a first registration
InitialPoints == 2
\* cfg.preauth_ttl_seconds and cfg.ttl_seconds, the configured TTLs
PreauthTtl == 1
TtlSeconds == 1
\* the wall clock starts at StartTime (a positive unix time) and runs until a
\* reservation made at the start is older than the preauth TTL
StartTime == 1
MaxTime == StartTime + PreauthTtl + 1
\* number of uuid4 reservation ids the model issues
MaxRids == 2
\* number of frames handled in one run
MaxSteps == 4

\* cfg.registry_token of this deployment, and a token that does not match it
RegistryToken == "tok"
BadToken == "bad"

\* reservation ids are uuid4 strings; the model numbers them in order of issue,
\* 0 stands for a missing / empty reservationId
NoRid == 0
\* payload.get("latencyMs") absent
NoLatency == -1

Max(x, y) == IF x >= y THEN x ELSE y

VARIABLES
    nodes,         \* RegistryState.nodes: nodeId -> RegistryEntry
    cap_index,     \* RegistryState.cap_index: capability key -> set of nodeIds
    reservations,  \* RegistryState.reservations: reservationId -> reservation
    ws_to_node,    \* RegistryServer._ws_to_node: connection -> bound nodeId
    open,          \* connections whose handler is past the first frame
    now,           \* wall clock read by _utc_ts() / time.time()
    issued,        \* number of reservation ids uuid4 has produced
    last,          \* type (and reservationId) of the frame most recently handled
    reply,         \* the envelope sent in answer to it
    settled,       \* history: reservationId -> how and with what it was removed
    awarded,       \* history: nodeId -> number of award_ok answered for it
    steps,         \* number of frames, closes, ticks and sweeps so far
    pend,          \* connection -> the frame or the reply it has in flight
    acked,         \* history: reservationIds whose commit_ok reached the client
    _nodes,        \* RelayServer._nodes: nodeId -> connection of its relay_hello
    _pending,      \* RelayServer._pending: internalId -> client_ws, client_id, created_ts
    internal_ids,  \* number of internal ids uuid4 has produced for the relay
    ws_node_id,    \* relay connection -> the node_id local of its handler
    relay_conn,    \* relay connection -> "new", "open" or "closed"
    mono,          \* time.monotonic() as the relay reads it
    sent,          \* the envelopes the relay / node service sent in its last step
    got,           \* the frame the relay / node service handled last
    wire_steps,    \* number of relay / node service steps so far
    relay_pc,      \* relay connection -> where its handler is suspended
    answered,      \* history: internalId -> number of results and timeouts sent for it
    _buckets,      \* RateLimiter._buckets: key -> TokenBucket
    _last_cleanup, \* RateLimiter._last_cleanup
    monotonic,     \* time.monotonic() as the rate limiter reads it
    peer,          \* registry connection -> the remote address it came from
    admits,        \* history: key -> age -> requests admitted that long ago
    deleg,         \* delegate_task: its arguments, locals and position
    knowledge_packs, \* RegistryState.knowledge_packs: packId -> KnowledgePack
    fs,            \* the state file, its .tmp file and the position of save()
    srv            \* RegistryServer: its background tasks, its socket, the position of stop()

vars == <<nodes, cap_index, reservations, ws_to_node, open, now, issued,
          last, reply, settled, awarded, steps, pend, acked>>

\* the variables of the relay and the node service
\* the position of the relay's handlers between their awaits
passVars == <<relay_pc, answered>>

relayVars == <<_nodes, _pending, internal_ids, ws_node_id, relay_conn, mono, sent,
               got, wire_steps, passVars>>

\* the variables of the registry's rate limiter
limitVars == <<_buckets, _last_cleanup, monotonic, peer, admits>>

\* the locals of one delegate_task call of the public client
clientVars == <<deleg>>

\* the registry's knowledge store
storeVars == <<knowledge_packs, fs, srv>>

\* the variables the relay and the node service leave alone
sideVars == <<limitVars, clientVars, storeVars>>

wireVars == <<relayVars, sideVars>>

allVars == <<vars, wireVars>>

(***************************************************************************)
(* RegistryEntry and RegistryState                                         *)
(***************************************************************************)
\* presentation fields a register / update payload carries
Presentations ==
    { [nodeName |-> "n1", endpointUrl |-> "ws://n", capabilities |-> [echo |-> TRUE], pricePoints |-> 1],
      [nodeName |-> "n2", endpointUrl |-> "", capabilities |-> [echo |-> FALSE], pricePoints |-> 2] }

\* RegistryEntry(node_id=.., online=True) as built by the register / update handlers
RegistryEntry(node_id, pres, t) ==
    [ node_id |-> node_id,
      node_name |-> pres.nodeName,
      endpoint_url |-> pres.endpointUrl,
      capabilities |-> pres.capabilities,
      price_points |-> pres.pricePoints,
      online |-> TRUE,
      last_seen_ts |-> t,
      completed_tasks |-> 0,
      earned_points |-> 0,
      balance |-> 0,
      spent_points |-> 0,
      held_points |-> 0,
      success_count |-> 0,
      fail_count |-> 0,
      total_latency_ms |-> 0 ]

\* RegistryEntry.from_dict: every field, the counters included, is read from
\* the dict
from_dict(data) ==
    [ node_id |-> data.nodeId,
      node_name |-> data.nodeName,
      endpoint_url |-> data.endpointUrl,
      capabilities |-> data.capabilities,
      price_points |-> IF data.pricePoints = 0 THEN 1 ELSE data.pricePoints,
      online |-> data.online,
      last_seen_ts |-> data.lastSeenTs,
      completed_tasks |-> data.completedTasks,
      earned_points |-> data.earnedPoints,
      balance |-> data.balance,
      spent_points |-> data.spentPoints,
      held_points |-> data.heldPoints,
      success_count |-> data.successCount,
      fail_count |-> data.failCount,
      total_latency_ms |-> data.totalLatencyMs ]

\* _reindex with the bug of leaving the old entry's capabilities in the index
_reindex_keepsOld(ci, entry, old, hasOld) ==
    LET enabled == { cap \in DOMAIN entry.capabilities : entry.capabilities[cap] }
    IN  [cap \in DOMAIN ci \cup enabled |->
            (IF cap \in DOMAIN ci THEN ci[cap] ELSE {})
            \cup (IF cap \in enabled THEN {entry.node_id} ELSE {})]

\* RegistryState._reindex
_reindex(ci, entry, old, hasOld) ==
    LET dropped == IF hasOld
                   THEN [cap \in DOMAIN ci |->
                            IF cap \in DOMAIN old.capabilities
                            THEN ci[cap] \ {old.node_id} ELSE ci[cap]]
                   ELSE ci
        kept == { cap \in DOMAIN dropped : dropped[cap] # {} }
        enabled == { cap \in DOMAIN entry.capabilities : entry.capabilities[cap] }
    IN  [cap \in kept \cup enabled |->
            (IF cap \in kept THEN dropped[cap] ELSE {})
            \cup (IF cap \in enabled THEN {entry.node_id} ELSE {})]

\* upsert with the bug of not carrying the old entry's counters over
upsert_resets(ns, ci, entry) ==
    LET hasOld == entry.node_id \in DOMAIN ns
        old == IF hasOld THEN ns[entry.node_id] ELSE entry
    IN  [ nodes |-> [n \in DOMAIN ns \cup {entry.node_id} |->
                        IF n = entry.node_id THEN entry ELSE ns[n]],
          cap_index |-> _reindex(ci, entry, old, hasOld) ]

\* RegistryState.upsert
upsert(ns, ci, entry) ==
    LET hasOld == entry.node_id \in DOMAIN ns
        old == IF hasOld THEN ns[entry.node_id] ELSE entry
        e == IF hasOld
             THEN [entry EXCEPT !.completed_tasks = old.completed_tasks,
                                !.earned_points = old.earned_points,
                                !.balance = old.balance,
                                !.spent_points = old.spent_points,
                                !.held_points = old.held_points,
                                !.success_count = old.success_count,
                                !.fail_count = old.fail_count,
                                !.total_latency_ms = old.total_latency_ms]
             ELSE entry
    IN  [ nodes |-> [n \in DOMAIN ns \cup {entry.node_id} |->
                        IF n = entry.node_id THEN e ELSE ns[n]],
          cap_index |-> _reindex(ci, e, old, hasOld) ]

\* RegistryState.set_offline
set_offline(ns, node_id, t) ==
    IF node_id \in DOMAIN ns
    THEN [ns EXCEPT ![node_id].online = FALSE, ![node_id].last_seen_ts = t]
    ELSE ns

\* RegistryState.apply_ttl
apply_ttl(ns, ttl_seconds, t) ==
    IF ttl_seconds <= 0 THEN ns
    ELSE [n \in DOMAIN ns |->
            IF ns[n].online /\ ns[n].last_seen_ts < t - ttl_seconds
            THEN [ns[n] EXCEPT !.online = FALSE] ELSE ns[n]]

\* RegistryState.candidates_for_caps (required is not empty)
candidates_for_caps(ns, ci, required) ==
    { n \in DOMAIN ns : \A cap \in required : cap \in DOMAIN ci /\ n \in ci[cap] }

\* award with the bug of not checking the payer's balance
award_unchecked(ns, node_id, points, payer_node_id, t) ==
    IF node_id \notin DOMAIN ns THEN [ok |-> FALSE, nodes |-> ns]
    ELSE IF payer_node_id # NoNode /\ payer_node_id \notin DOMAIN ns
         THEN [ok |-> FALSE, nodes |-> ns]
    ELSE
        LET paid == IF payer_node_id # NoNode
                    THEN [ns EXCEPT ![payer_node_id].balance = @ - points,
                                    ![payer_node_id].spent_points = @ + points,
                                    ![payer_node_id].last_seen_ts = t]
                    ELSE ns
        IN  [ ok |-> TRUE,
              nodes |-> [paid EXCEPT ![node_id].completed_tasks = @ + 1,
                                     ![node_id].earned_points = @ + points,
                                     ![node_id].balance = @ + points,
                                     ![node_id].last_seen_ts = t] ]

\* award with the bug of not counting the payer's points as spent
award_noSpent(ns, node_id, points, payer_node_id, t) ==
    IF node_id \notin DOMAIN ns THEN [ok |-> FALSE, nodes |-> ns]
    ELSE IF payer_node_id # NoNode /\ payer_node_id \notin DOMAIN ns
         THEN [ok |-> FALSE, nodes |-> ns]
    ELSE IF payer_node_id # NoNode /\ ns[payer_node_id].balance < points
         THEN [ok |-> FALSE, nodes |-> ns]
    ELSE
        LET paid == IF payer_node_id # NoNode
                    THEN [ns EXCEPT ![payer_node_id].balance = @ - points,
                                    ![payer_node_id].last_seen_ts = t]
                    ELSE ns
        IN  [ ok |-> TRUE,
              nodes |-> [paid EXCEPT ![node_id].completed_tasks = @ + 1,
                                     ![node_id].earned_points = @ + points,
                                     ![node_id].balance = @ + points,
                                     ![node_id].last_seen_ts = t] ]

\* RegistryState.award
award(ns, node_id, points, payer_node_id, t) ==
    IF node_id \notin DOMAIN ns THEN [ok |-> FALSE, nodes |-> ns]
    ELSE IF payer_node_id # NoNode /\ payer_node_id \notin DOMAIN ns
         THEN [ok |-> FALSE, nodes |-> ns]
    ELSE IF payer_node_id # NoNode /\ ns[payer_node_id].balance < points
         THEN [ok |-> FALSE, nodes |-> ns]
    ELSE
        LET paid == IF payer_node_id # NoNode
                    THEN [ns EXCEPT ![payer_node_id].balance = @ - points,
                                    ![payer_node_id].spent_points = @ + points,
                                    ![payer_node_id].last_seen_ts = t]
                    ELSE ns
        IN  [ ok |-> TRUE,
              nodes |-> [paid EXCEPT ![node_id].completed_tasks = @ + 1,
                                     ![node_id].earned_points = @ + points,
                                     ![node_id].balance = @ + points,
                                     ![node_id].last_seen_ts = t] ]

\* the reservation table rs with a new reservation rid
WithReservation(rs, rid, payer_node_id, provider_node_id, points, t) ==
    [r \in DOMAIN rs \cup {rid} |->
        IF r = rid
        THEN [id |-> rid, payerNode |-> payer_node_id,
              providerNode |-> provider_node_id,
              points |-> points, createdTs |-> t]
        ELSE rs[r]]

\* reserve with the bug of not comparing the payer's balance with the points
reserve_unchecked(ns, rs, payer_node_id, provider_node_id, points, rid, t) ==
    IF payer_node_id \notin DOMAIN ns \/ provider_node_id \notin DOMAIN ns
    THEN [rid |-> NoRid, nodes |-> ns, reservations |-> rs]
    ELSE IF points <= 0
    THEN [rid |-> NoRid, nodes |-> ns, reservations |-> rs]
    ELSE [ rid |-> rid,
           nodes |-> [ns EXCEPT ![payer_node_id].balance = @ - points,
                                ![payer_node_id].held_points = @ + points,
                                ![payer_node_id].last_seen_ts = t],
           reservations |->
               WithReservation(rs, rid, payer_node_id, provider_node_id, points, t) ]

\* reserve with the bug of refusing a payer whose balance equals the points
reserve_offByOne(ns, rs, payer_node_id, provider_node_id, points, rid, t) ==
    IF payer_node_id \notin DOMAIN ns \/ provider_node_id \notin DOMAIN ns
    THEN [rid |-> NoRid, nodes |-> ns, reservations |-> rs]
    ELSE IF points <= 0
    THEN [rid |-> NoRid, nodes |-> ns, reservations |-> rs]
    ELSE IF ns[payer_node_id].balance <= points
    THEN [rid |-> NoRid, nodes |-> ns, reservations |-> rs]
    ELSE [ rid |-> rid,
           nodes |-> [ns EXCEPT ![payer_node_id].balance = @ - points,
                                ![payer_node_id].held_points = @ + points,
                                ![payer_node_id].last_seen_ts = t],
           reservations |->
               WithReservation(rs, rid, payer_node_id, provider_node_id, points, t) ]

\* RegistryState.reserve; rid is the uuid4 drawn for the new reservation
reserve(ns, rs, payer_node_id, provider_node_id, points, rid, t) ==
    IF payer_node_id \notin DOMAIN ns \/ provider_node_id \notin DOMAIN ns
    THEN [rid |-> NoRid, nodes |-> ns, reservations |-> rs]
    ELSE IF points <= 0
    THEN [rid |-> NoRid, nodes |-> ns, reservations |-> rs]
    ELSE IF ns[payer_node_id].balance < points
    THEN [rid |-> NoRid, nodes |-> ns, reservations |-> rs]
    ELSE [ rid |-> rid,
           nodes |-> [ns EXCEPT ![payer_node_id].balance = @ - points,
                                ![payer_node_id].held_points = @ + points,
                                ![payer_node_id].last_seen_ts = t],
           reservations |->
               WithReservation(rs, rid, payer_node_id, provider_node_id, points, t) ]

\* dict.pop(reservation_id, None)
Pop(rs, rid) == [r \in DOMAIN rs \ {rid} |-> rs[r]]

\* commit with the bug of leaving the points in the payer's held_points
commit_keepsHeld(ns, rs, reservation_id, t) ==
    IF reservation_id \notin DOMAIN rs
    THEN [ok |-> FALSE, nodes |-> ns, reservations |-> rs]
    ELSE
        LET item == rs[reservation_id]
            payer_id == item.payerNode
            provider_id == item.providerNode
            points == item.points
            popped == Pop(rs, reservation_id)
        IN  IF payer_id = NoNode \/ provider_id = NoNode \/ points <= 0
            THEN [ok |-> FALSE, nodes |-> ns, reservations |-> popped]
            ELSE IF payer_id \notin DOMAIN ns \/ provider_id \notin DOMAIN ns
            THEN [ok |-> FALSE, nodes |-> ns, reservations |-> popped]
            ELSE
                LET paid == [ns EXCEPT
                                ![payer_id].spent_points = @ + points,
                                ![payer_id].last_seen_ts = t]
                IN  [ ok |-> TRUE,
                      nodes |-> [paid EXCEPT
                                    ![provider_id].balance = @ + points,
                                    ![provider_id].earned_points = @ + points,
                                    ![provider_id].completed_tasks = @ + 1,
                                    ![provider_id].last_seen_ts = t],
                      reservations |-> popped ]

\* commit with the bug of not counting the task as completed by the provider
commit_noCount(ns, rs, reservation_id, t) ==
    IF reservation_id \notin DOMAIN rs
    THEN [ok |-> FALSE, nodes |-> ns, reservations |-> rs]
    ELSE
        LET item == rs[reservation_id]
            payer_id == item.payerNode
            provider_id == item.providerNode
            points == item.points
            popped == Pop(rs, reservation_id)
        IN  IF payer_id = NoNode \/ provider_id = NoNode \/ points <= 0
            THEN [ok |-> FALSE, nodes |-> ns, reservations |-> popped]
            ELSE IF payer_id \notin DOMAIN ns \/ provider_id \notin DOMAIN ns
            THEN [ok |-> FALSE, nodes |-> ns, reservations |-> popped]
            ELSE
                LET paid == [ns EXCEPT
                                ![payer_id].held_points = Max(0, @ - points),
                                ![payer_id].spent_points = @ + points,
                                ![payer_id].last_seen_ts = t]
                IN  [ ok |-> TRUE,
                      nodes |-> [paid EXCEPT
                                    ![provider_id].balance = @ + points,
                                    ![provider_id].earned_points = @ + points,
                                    ![provider_id].last_seen_ts = t],
                      reservations |-> popped ]

\* commit with the bug of answering True once the reservation is popped,
\* before any point moves
commit_early(ns, rs, reservation_id, t) ==
    IF reservation_id \notin DOMAIN rs
    THEN [ok |-> FALSE, nodes |-> ns, reservations |-> rs]
    ELSE [ok |-> TRUE, nodes |-> ns, reservations |-> Pop(rs, reservation_id)]

\* RegistryState.commit
\* commit that pays the provider without crediting earned_points
commit_uncredited(ns, rs, reservation_id, t) ==
    IF reservation_id \notin DOMAIN rs
    THEN [ok |-> FALSE, nodes |-> ns, reservations |-> rs]
    ELSE
        LET item == rs[reservation_id]
            payer_id == item.payerNode
            provider_id == item.providerNode
            points == item.points
            popped == Pop(rs, reservation_id)
        IN  IF payer_id = NoNode \/ provider_id = NoNode \/ points <= 0
            THEN [ok |-> FALSE, nodes |-> ns, reservations |-> popped]
            ELSE IF payer_id \notin DOMAIN ns \/ provider_id \notin DOMAIN ns
            THEN [ok |-> FALSE, nodes |-> ns, reservations |-> popped]
            ELSE
                LET paid == [ns EXCEPT
                                ![payer_id].held_points = Max(0, @ - points),
                                ![payer_id].spent_points = @ + points,
                                ![payer_id].last_seen_ts = t]
                IN  [ ok |-> TRUE,
                      nodes |-> [paid EXCEPT
                                    ![provider_id].balance = @ + points,
                                    ![provider_id].completed_tasks = @ + 1,
                                    ![provider_id].last_seen_ts = t],
                      reservations |-> popped ]

commit(ns, rs, reservation_id, t) ==
    IF reservation_id \notin DOMAIN rs
    THEN [ok |-> FALSE, nodes |-> ns, reservations |-> rs]
    ELSE
        LET item == rs[reservation_id]
            payer_id == item.payerNode
            provider_id == item.providerNode
            points == item.points
            popped == Pop(rs, reservation_id)
        IN  IF payer_id = NoNode \/ provider_id = NoNode \/ points <= 0
            THEN [ok |-> FALSE, nodes |-> ns, reservations |-> popped]
            ELSE IF payer_id \notin DOMAIN ns \/ provider_id \notin DOMAIN ns
            THEN [ok |-> FALSE, nodes |-> ns, reservations |-> popped]
            ELSE
                LET paid == [ns EXCEPT
                                ![payer_id].held_points = Max(0, @ - points),
                                ![payer_id].spent_points = @ + points,
                                ![payer_id].last_seen_ts = t]
                IN  [ ok |-> TRUE,
                      nodes |-> [paid EXCEPT
                                    ![provider_id].balance = @ + points,
                                    ![provider_id].earned_points = @ + points,
                                    ![provider_id].completed_tasks = @ + 1,
                                    ![provider_id].last_seen_ts = t],
                      reservations |-> popped ]

\* the refund both cancel and expire_reservations apply to the payer
Refund(ns, payer_id, points, t) ==
    [ns EXCEPT ![payer_id].balance = @ + points,
               ![payer_id].held_points = Max(0, @ - points),
               ![payer_id].last_seen_ts = t]

\* cancel with the bug of releasing the hold without returning the points
cancel_noRefund(ns, rs, reservation_id, t) ==
    IF reservation_id \notin DOMAIN rs
    THEN [ok |-> FALSE, nodes |-> ns, reservations |-> rs]
    ELSE
        LET item == rs[reservation_id]
            popped == Pop(rs, reservation_id)
        IN  IF item.payerNode = NoNode \/ item.points <= 0
            THEN [ok |-> FALSE, nodes |-> ns, reservations |-> popped]
            ELSE IF item.payerNode \notin DOMAIN ns
            THEN [ok |-> FALSE, nodes |-> ns, reservations |-> popped]
            ELSE [ ok |-> TRUE,
                   nodes |-> [ns EXCEPT
                                ![item.payerNode].held_points = Max(0, @ - item.points),
                                ![item.payerNode].last_seen_ts = t],
                   reservations |-> popped ]

\* cancel with the bug of reading the reservation without popping it
cancel_noPop(ns, rs, reservation_id, t) ==
    IF reservation_id \notin DOMAIN rs
    THEN [ok |-> FALSE, nodes |-> ns, reservations |-> rs]
    ELSE
        LET item == rs[reservation_id]
        IN  IF item.payerNode = NoNode \/ item.points <= 0
            THEN [ok |-> FALSE, nodes |-> ns, reservations |-> rs]
            ELSE IF item.payerNode \notin DOMAIN ns
            THEN [ok |-> FALSE, nodes |-> ns, reservations |-> rs]
            ELSE [ ok |-> TRUE,
                   nodes |-> Refund(ns, item.payerNode, item.points, t),
                   reservations |-> rs ]

\* RegistryState.cancel
cancel(ns, rs, reservation_id, t) ==
    IF reservation_id \notin DOMAIN rs
    THEN [ok |-> FALSE, nodes |-> ns, reservations |-> rs]
    ELSE
        LET item == rs[reservation_id]
            popped == Pop(rs, reservation_id)
        IN  IF item.payerNode = NoNode \/ item.points <= 0
            THEN [ok |-> FALSE, nodes |-> ns, reservations |-> popped]
            ELSE IF item.payerNode \notin DOMAIN ns
            THEN [ok |-> FALSE, nodes |-> ns, reservations |-> popped]
            ELSE [ ok |-> TRUE,
                   nodes |-> Refund(ns, item.payerNode, item.points, t),
                   reservations |-> popped ]

\* RegistryState.report
report(ns, node_id, ok, latency_ms, t) ==
    IF node_id \notin DOMAIN ns THEN [ok |-> FALSE, nodes |-> ns]
    ELSE [ ok |-> TRUE,
           nodes |-> [ns EXCEPT
                        ![node_id].success_count = IF ok THEN @ + 1 ELSE @,
                        ![node_id].fail_count = IF ok THEN @ ELSE @ + 1,
                        ![node_id].total_latency_ms =
                            IF latency_ms # NoLatency THEN @ + latency_ms ELSE @,
                        ![node_id].last_seen_ts = t] ]

\* the reservations the sweep pops: created and created < cutoff
Expired(rs, ttl_seconds, t) ==
    { r \in DOMAIN rs : rs[r].createdTs # 0 /\ rs[r].createdTs < t - ttl_seconds }

\* the second loop of expire_reservations, over the popped items in dict order
RECURSIVE RefundAll(_, _, _, _)
RefundAll(ns, rs, rids, t) ==
    IF rids = {} THEN ns
    ELSE LET r == CHOOSE x \in rids : \A y \in rids : x <= y
             item == rs[r]
             next == IF item.payerNode = NoNode \/ item.points <= 0 THEN ns
                     ELSE IF item.payerNode \notin DOMAIN ns THEN ns
                     ELSE Refund(ns, item.payerNode, item.points, t)
         IN  RefundAll(next, rs, rids \ {r}, t)

\* expire_reservations with the bug of popping without the refund loop
expire_noRefund(ns, rs, ttl_seconds, t) ==
    IF ttl_seconds <= 0 THEN [count |-> 0, nodes |-> ns, reservations |-> rs]
    ELSE LET expired == Expired(rs, ttl_seconds, t)
         IN  [ count |-> Cardinality(expired),
               nodes |-> ns,
               reservations |-> [r \in DOMAIN rs \ expired |-> rs[r]] ]

\* RegistryState.expire_reservations
expire_reservations(ns, rs, ttl_seconds, t) ==
    IF ttl_seconds <= 0 THEN [count |-> 0, nodes |-> ns, reservations |-> rs]
    ELSE LET expired == Expired(rs, ttl_seconds, t)
         IN  [ count |-> Cardinality(expired),
               nodes |-> RefundAll(ns, rs, expired, t),
               reservations |-> [r \in DOMAIN rs \ expired |-> rs[r]] ]

(***************************************************************************)
(* Frames (Envelope type + payload) the clients send                       *)
(***************************************************************************)
ReqNodeIds == NodeIds \cup {NoNode}
PointsIn == 1..MaxPoints
RidsIn == 0..MaxRids
Tokens == {RegistryToken, BadToken}

\* the telemetry a report frame carries: (ok, latencyMs)
Outcomes == { <<TRUE, 1>>, <<FALSE, NoLatency>> }

\* the id of the envelopes the clients of these specifications send
RequestId == "r1"

\* an envelope id that is the empty string
NoId == ""

\* the ids clients put on their requests
ClientIds == {"r1", "r2", NoId}

\* a frame that Envelope.from_json rejects (invalid JSON or envelope)
Garbled == [type |-> "garbled", garbled |-> TRUE]

\* the id make_envelope draws (uuid4) when the caller passes none
DrawnId == "uuid"

\* register / update frames
RegisterFrames ==
    { [id |-> RequestId, type |-> "register", nodeId |-> n, pres |-> p, registryToken |-> RegistryToken] :
         n \in NodeIds, p \in { q \in Presentations : q.pricePoints = 1 } }
    \cup { [id |-> RequestId, type |-> "update", nodeId |-> n, pres |-> p, registryToken |-> RegistryToken] :
         n \in NodeIds, p \in Presentations }

\* the ledger frames: reserve, commit, cancel, award, report
LedgerFrames ==
    { [id |-> RequestId, type |-> "reserve", nodeId |-> n, payerNode |-> p, points |-> k,
       registryToken |-> RegistryToken] :
         n \in NodeIds, p \in NodeIds, k \in PointsIn }
    \cup { [id |-> RequestId, type |-> ty, reservationId |-> r, registryToken |-> RegistryToken] :
             ty \in {"commit", "cancel"}, r \in RidsIn }
    \cup { [id |-> RequestId, type |-> "award", nodeId |-> n, points |-> k, payerNode |-> p,
            registryToken |-> RegistryToken] :
             n \in NodeIds, p \in ReqNodeIds, k \in PointsIn }
    \cup { [id |-> RequestId, type |-> "report", nodeId |-> n, ok |-> o[1], latencyMs |-> o[2],
            registryToken |-> RegistryToken] :
             n \in NodeIds, o \in Outcomes }

\* frames that miss a field or carry a token that does not match
BadFrames ==
    { [id |-> RequestId, type |-> "register", nodeId |-> NoNode, pres |-> p, registryToken |-> RegistryToken] :
          p \in { q \in Presentations : q.pricePoints = 1 } }
    \cup { [id |-> RequestId, type |-> "register", nodeId |-> "a", pres |-> p, registryToken |-> BadToken] :
          p \in { q \in Presentations : q.pricePoints = 1 } }
    \cup { [id |-> RequestId, type |-> "reserve", nodeId |-> NoNode, payerNode |-> "a", points |-> 1,
            registryToken |-> RegistryToken],
           [id |-> RequestId, type |-> "reserve", nodeId |-> "a", payerNode |-> NoNode, points |-> 1,
            registryToken |-> RegistryToken],
           [id |-> RequestId, type |-> "reserve", nodeId |-> "a", payerNode |-> "a", points |-> 1,
            registryToken |-> BadToken],
           [id |-> RequestId, type |-> "reserve", nodeId |-> "a", payerNode |-> "a", points |-> 0,
            registryToken |-> RegistryToken],
           [id |-> RequestId, type |-> "award", nodeId |-> "a", points |-> 0, payerNode |-> NoNode,
            registryToken |-> RegistryToken],
           [id |-> RequestId, type |-> "commit", reservationId |-> 1, registryToken |-> BadToken],
           [id |-> RequestId, type |-> "cancel", reservationId |-> 1, registryToken |-> BadToken],
           [id |-> RequestId, type |-> "award", nodeId |-> NoNode, points |-> 1, payerNode |-> NoNode,
            registryToken |-> RegistryToken],
           [id |-> RequestId, type |-> "award", nodeId |-> "a", points |-> 1, payerNode |-> NoNode,
            registryToken |-> BadToken] }

\* the pageSize a list without the field asks for, and the largest served
DefaultPageSize == 50
MaxPageSize == 200

\* read-only frames; a list without page / pageSize asks for page 1 of
\* DefaultPageSize
QueryFrames ==
    { [id |-> RequestId, type |-> "ping"] }
    \cup { [id |-> RequestId, type |-> "list", onlineOnly |-> o, requireCapabilities |-> rc,
            page |-> 1, pageSize |-> DefaultPageSize] :
             o \in BOOLEAN, rc \in {{}, {"echo"}} }
    \cup { [id |-> RequestId, type |-> "resolve", nodeId |-> n, registryToken |-> RegistryToken] :
             n \in ReqNodeIds }

Frames == RegisterFrames \cup LedgerFrames \cup BadFrames \cup QueryFrames

\* the presentations of the directory frames: Presentations, one whose
\* capability map has dropped the key and offers another capability, and one
\* that offers both
DirPresentations ==
    Presentations
    \cup { [nodeName |-> "n3", endpointUrl |-> "ws://n", capabilities |-> [ocr |-> TRUE],
            pricePoints |-> 1],
           [nodeName |-> "n4", endpointUrl |-> "ws://n",
            capabilities |-> [echo |-> TRUE, ocr |-> TRUE], pricePoints |-> 1] }

\* the values a peer registry reports for each counter of a node
PeerCounts == {0, 1}

\* one element of the "nodes" list of a sync payload: an entry as a peer
\* serialises it (RegistryEntry.to_dict), every counter being k
SyncItem(n, p, o, k) ==
    [ nodeId |-> n, nodeName |-> p.nodeName, endpointUrl |-> p.endpointUrl,
      capabilities |-> p.capabilities, pricePoints |-> p.pricePoints,
      online |-> o, lastSeenTs |-> StartTime,
      completedTasks |-> k, earnedPoints |-> k, balance |-> k, spentPoints |-> k,
      heldPoints |-> k, successCount |-> k, failCount |-> k, totalLatencyMs |-> k ]

\* sync frames: the bridge pushes the entries of one node, of both nodes, or
\* presents a token that does not match
SyncFrames ==
    { [id |-> RequestId, type |-> "sync", nodes |-> <<SyncItem(n, p, o, k)>>,
       registryToken |-> RegistryToken] :
          n \in NodeIds, p \in DirPresentations, o \in BOOLEAN, k \in PeerCounts }
    \cup { [id |-> RequestId, type |-> "sync",
            nodes |-> << SyncItem("a", p, TRUE, 1), SyncItem("b", p, FALSE, 1) >>,
            registryToken |-> tok] :
          p \in Presentations, tok \in Tokens }

(***************************************************************************)
(* RegistryServer                                                          *)
(***************************************************************************)
\* RegistryServer._check_token
_check_token(provided) ==
    IF RegistryToken = "" THEN TRUE ELSE provided = RegistryToken

\* make_envelope("error", id=env.id, payload={"message": ...})
Error(env, message) == [id |-> env.id, type |-> "error", message |-> message]

\* the node ids in the order of Python's string comparison
NodeOrder == <<"a", "b">>
Rank(n) == CHOOSE i \in 1..Len(NodeOrder) : NodeOrder[i] = n

\* nodes.sort(key=lambda n: n.node_id): the ids of S in ascending order
RECURSIVE SortedIds(_)
SortedIds(S) ==
    IF S = {} THEN << >>
    ELSE LET lo == CHOOSE x \in S : \A y \in S : Rank(x) <= Rank(y)
         IN  <<lo>> \o SortedIds(S \ {lo})

\* one element of the "nodes" list of a list_result payload
ListItem(e) ==
    [ nodeId |-> e.node_id,
      nodeName |-> e.node_name,
      capabilities |-> e.capabilities,
      pricePoints |-> e.price_points,
      online |-> e.online,
      completedTasks |-> e.completed_tasks,
      earnedPoints |-> e.earned_points,
      balance |-> e.balance,
      spentPoints |-> e.spent_points,
      heldPoints |-> e.held_points,
      successCount |-> e.success_count,
      failCount |-> e.fail_count,
      avgLatencyMs |-> e.total_latency_ms \div Max(1, e.success_count + e.fail_count),
      lastSeenTs |-> e.last_seen_ts ]

\* the state a handler leaves and the envelope it sends
Out(ns, ci, rs, n_issued, w2n, st, aw, rep) ==
    [ nodes |-> ns, cap_index |-> ci, reservations |-> rs, issued |-> n_issued,
      ws_to_node |-> w2n, settled |-> st, awarded |-> aw, reply |-> rep ]

\* a handler path that changes nothing and sends rep
Unchanged(rep) ==
    Out(nodes, cap_index, reservations, issued, ws_to_node, settled, awarded, rep)

\* history: how a reservation left the table
Settle(st, rs, rids, how) ==
    [r \in DOMAIN st \cup rids |->
        IF r \in rids THEN [how |-> how, payerNode |-> rs[r].payerNode,
                            providerNode |-> rs[r].providerNode,
                            points |-> rs[r].points]
        ELSE st[r]]

Min(x, y) == IF x <= y THEN x ELSE y

\* nodes[start:end] of Python: the elements of seq after the first start, up
\* to the end-th
Slice(seq, start, end) == SubSeq(seq, start + 1, Min(end, Len(seq)))

\* the list_result the list handler builds from the entries ns and the
\* capability index ci: candidates, online filter, sort, page slice
list_result(ns, ci, env) ==
    LET page == Max(1, IF env.page = 0 THEN 1 ELSE env.page)
        page_size == Max(1, Min(IF env.pageSize = 0 THEN DefaultPageSize
                                ELSE env.pageSize, MaxPageSize))
        cand == IF env.requireCapabilities # {}
                THEN candidates_for_caps(ns, ci, env.requireCapabilities)
                ELSE IF env.onlineOnly THEN { n \in DOMAIN ns : ns[n].online }
                     ELSE DOMAIN ns
        sel == IF env.onlineOnly THEN { n \in cand : ns[n].online } ELSE cand
        sorted == SortedIds(sel)
        ids == Slice(sorted, (page - 1) * page_size, (page - 1) * page_size + page_size)
    IN  [id |-> env.id, type |-> "list_result", page |-> page, pageSize |-> page_size,
          total |-> Len(sorted),
          nodes |-> [i \in 1..Len(ids) |-> ListItem(ns[ids[i]])] ]

\* RegistryServer._handle, env.type == "list"
HandleList(env, t) ==
    LET ns == apply_ttl(nodes, TtlSeconds, t)
    IN  Out(ns, cap_index, reservations, issued, ws_to_node, settled, awarded,
            list_result(ns, cap_index, env))

\* RegistryServer._handle, env.type == "award"
HandleAward(env, t) ==
    IF ~_check_token(env.registryToken) THEN Unchanged(Error(env, "invalid registry token"))
    ELSE IF env.nodeId = NoNode \/ env.points <= 0
    THEN Unchanged(Error(env, "missing nodeId/points"))
    ELSE LET r == award(nodes, env.nodeId, env.points, env.payerNode, t)
         IN  IF ~r.ok THEN Unchanged(Error(env, "insufficient balance or node missing"))
             ELSE Out(r.nodes, cap_index, reservations, issued, ws_to_node, settled,
                      [awarded EXCEPT ![env.nodeId] = @ + 1], [id |-> env.id, type |-> "award_ok"])

\* RegistryServer._handle, env.type == "report"
HandleReport(env, t) ==
    IF ~_check_token(env.registryToken) THEN Unchanged(Error(env, "invalid registry token"))
    ELSE IF env.nodeId = NoNode THEN Unchanged(Error(env, "missing nodeId"))
    ELSE Out(report(nodes, env.nodeId, env.ok, env.latencyMs, t).nodes, cap_index,
             reservations, issued, ws_to_node, settled, awarded, [id |-> env.id, type |-> "report_ok"])

\* RegistryServer._handle, env.type == "reserve"
HandleReserve(env, t) ==
    IF ~_check_token(env.registryToken) THEN Unchanged(Error(env, "invalid registry token"))
    ELSE IF env.nodeId = NoNode \/ env.payerNode = NoNode \/ env.points <= 0
    THEN Unchanged(Error(env, "missing nodeId/payerNode/points"))
    ELSE LET r == reserve(nodes, reservations, env.payerNode, env.nodeId, env.points,
                          issued + 1, t)
         IN  IF r.rid = NoRid
             THEN Unchanged(Error(env, "insufficient balance or node missing"))
             ELSE Out(r.nodes, cap_index, r.reservations, issued + 1, ws_to_node,
                      settled, awarded,
                      [id |-> env.id, type |-> "reserve_ok", reservationId |-> r.rid])

\* RegistryServer._handle, env.type == "commit"
HandleCommit(env, t) ==
    IF ~_check_token(env.registryToken) THEN Unchanged(Error(env, "invalid registry token"))
    ELSE IF env.reservationId = NoRid THEN Unchanged(Error(env, "missing reservationId"))
    ELSE LET r == commit(nodes, reservations, env.reservationId, t)
         IN  IF ~r.ok
             THEN Out(r.nodes, cap_index, r.reservations, issued, ws_to_node, settled,
                      awarded, Error(env, "reservation not found"))
             ELSE Out(r.nodes, cap_index, r.reservations, issued, ws_to_node,
                      Settle(settled, reservations, {env.reservationId}, "commit"),
                      awarded, [id |-> env.id, type |-> "commit_ok"])

\* RegistryServer._handle, env.type == "cancel"
HandleCancel(env, t) ==
    IF ~_check_token(env.registryToken) THEN Unchanged(Error(env, "invalid registry token"))
    ELSE IF env.reservationId = NoRid THEN Unchanged(Error(env, "missing reservationId"))
    ELSE LET r == cancel(nodes, reservations, env.reservationId, t)
         IN  IF ~r.ok
             THEN Out(r.nodes, cap_index, r.reservations, issued, ws_to_node, settled,
                      awarded, Error(env, "reservation not found"))
             ELSE Out(r.nodes, cap_index, r.reservations, issued, ws_to_node,
                      Settle(settled, reservations, {env.reservationId}, "cancel"),
                      awarded, [id |-> env.id, type |-> "cancel_ok"])

\* the update handler with the bug of accepting any bound connection
HandleUpdate_anyBound(env, ws, t) ==
    IF ~_check_token(env.registryToken) THEN Unchanged(Error(env, "invalid registry token"))
    ELSE IF env.nodeId = NoNode THEN Unchanged(Error(env, "missing nodeId"))
    ELSE IF ws \notin DOMAIN ws_to_node
    THEN Unchanged(Error(env, "unauthorized update"))
    ELSE LET u == upsert(nodes, cap_index, RegistryEntry(env.nodeId, env.pres, t))
         IN  Out(u.nodes, u.cap_index, reservations, issued, ws_to_node, settled,
                 awarded, [id |-> env.id, type |-> "update_ok"])

\* RegistryServer._handle, env.type == "update"
HandleUpdate(env, ws, t) ==
    IF ~_check_token(env.registryToken) THEN Unchanged(Error(env, "invalid registry token"))
    ELSE IF env.nodeId = NoNode THEN Unchanged(Error(env, "missing nodeId"))
    ELSE IF ws \notin DOMAIN ws_to_node \/ ws_to_node[ws] # env.nodeId
    THEN Unchanged(Error(env, "unauthorized update"))
    ELSE LET u == upsert(nodes, cap_index, RegistryEntry(env.nodeId, env.pres, t))
         IN  Out(u.nodes, u.cap_index, reservations, issued, ws_to_node, settled,
                 awarded, [id |-> env.id, type |-> "update_ok"])

\* RegistryServer._handle, env.type == "resolve"
HandleResolve(env) ==
    IF ~_check_token(env.registryToken) THEN Unchanged(Error(env, "invalid registry token"))
    ELSE IF env.nodeId = NoNode THEN Unchanged(Error(env, "missing nodeId"))
    ELSE IF env.nodeId \notin DOMAIN nodes THEN Unchanged(Error(env, "node not found"))
    ELSE Unchanged([id |-> env.id, type |-> "resolve_ok", nodeId |-> env.nodeId,
                     endpointUrl |-> nodes[env.nodeId].endpoint_url,
                     online |-> nodes[env.nodeId].online,
                     lastSeenTs |-> nodes[env.nodeId].last_seen_ts ])

\* the loop of the sync handler: from_dict, online entries stamped with the
\* time of the sync, upsert
RECURSIVE SyncAll(_, _, _, _)
SyncAll(ns, ci, items, t) ==
    IF items = << >> THEN [nodes |-> ns, cap_index |-> ci]
    ELSE LET d == from_dict(Head(items))
             entry == IF d.online THEN [d EXCEPT !.last_seen_ts = t] ELSE d
             u == upsert(ns, ci, entry)
         IN  SyncAll(u.nodes, u.cap_index, Tail(items), t)

\* RegistryServer._handle, env.type == "sync"
HandleSync(env, t) ==
    IF ~_check_token(env.registryToken) THEN Unchanged(Error(env, "invalid registry token"))
    ELSE LET u == SyncAll(nodes, cap_index, env.nodes, t)
         IN  Out(u.nodes, u.cap_index, reservations, issued, ws_to_node, settled,
                 awarded, [id |-> env.id, type |-> "sync_ok"])

\* RegistryServer._handle: the dispatch on env.type
_handle(env, ws, t) ==
    IF env.type = "ping" THEN Unchanged([id |-> env.id, type |-> "pong"])
    ELSE IF env.type = "list" THEN HandleList(env, t)
    ELSE IF env.type = "award" THEN HandleAward(env, t)
    ELSE IF env.type = "report" THEN HandleReport(env, t)
    ELSE IF env.type = "reserve" THEN HandleReserve(env, t)
    ELSE IF env.type = "commit" THEN HandleCommit(env, t)
    ELSE IF env.type = "cancel" THEN HandleCancel(env, t)
    ELSE IF env.type = "update" THEN HandleUpdate(env, ws, t)
    ELSE IF env.type = "resolve" THEN HandleResolve(env)
    ELSE IF env.type = "sync" THEN HandleSync(env, t)
    ELSE Unchanged(Error(env, "unknown type"))

\* RegistryServer._handler, the register branch of the first frame
HandleRegister(env, ws, t) ==
    LET is_new == env.nodeId \notin DOMAIN nodes
        entry == [RegistryEntry(env.nodeId, env.pres, t) EXCEPT
                     !.balance = IF is_new THEN InitialPoints ELSE 0]
        u == upsert(nodes, cap_index, entry)
    IN  Out(u.nodes, u.cap_index, reservations, issued,
            [w \in DOMAIN ws_to_node \cup {ws} |->
                IF w = ws THEN env.nodeId ELSE ws_to_node[w]],
            settled, awarded, [id |-> env.id, type |-> "register_ok", nodeId |-> env.nodeId])

\* RegistryServer._handler up to the frame loop: what the first frame of a
\* connection gets; stays is whether the handler goes on to the frame loop
_handler(env, ws, t) ==
    IF env.type \notin {"register", "list"}
    THEN [stays |-> FALSE, out |-> Unchanged(Error(env, "expected register or list"))]
    ELSE IF env.type = "register"
    THEN IF ~_check_token(env.registryToken)
         THEN [stays |-> FALSE, out |-> Unchanged(Error(env, "invalid registry token"))]
         ELSE IF env.nodeId = NoNode
         THEN [stays |-> FALSE, out |-> Unchanged(Error(env, "missing nodeId"))]
         ELSE [stays |-> TRUE, out |-> HandleRegister(env, ws, t)]
    ELSE [stays |-> TRUE, out |-> _handle(env, ws, t)]

\* RegistryServer._handler for the first thing read from a connection: a
\* frame that from_json rejects raises out of the handler, which logs it,
\* sends nothing and ends
first_frame(raw, ws, t) ==
    IF raw = Garbled THEN [stays |-> FALSE, out |-> Unchanged([type |-> "none"])]
    ELSE _handler(raw, ws, t)

\* RegistryServer._handler, one pass of the frame loop: a frame that from_json
\* rejects is answered "bad json" under a drawn id, and the loop goes on
frame_loop(raw, ws, t) ==
    IF raw = Garbled
    THEN Unchanged([id |-> DrawnId, type |-> "error", message |-> "bad json"])
    ELSE _handle(raw, ws, t)

(***************************************************************************)
(* The state machine: one action per frame handled, connection closed,     *)
(* clock tick and background sweep                                         *)
(***************************************************************************)
\* a connection with nothing in flight
Idle == [pc |-> "idle"]

\* no file at a path (Path.exists() is false)
NoFile == [kind |-> "absent"]

\* what a snapshot holds of RegistryState
Stored(ns, rs, ps) == [nodes |-> ns, reservations |-> rs, knowledge_packs |-> ps]

\* a registry without a state file yet, save() not running
NoSave ==
    [ pc |-> "idle", path |-> NoFile, tmp |-> NoFile, data |-> NoFile, prev |-> NoFile,
      path_of |-> Stored(<< >>, << >>, << >>), data_of |-> Stored(<< >>, << >>, << >>),
      damaged |-> FALSE ]

\* the background tasks start() may create
Loops == {"save", "ttl", "preauth", "metrics"}

\* a RegistryServer that was constructed and not started
NotStarted ==
    [ up |-> "new", state_path |-> FALSE, task |-> [l \in Loops |-> "none"], stop |-> "no",
      public |-> [register_task |-> "running", server |-> "listening", stop |-> "no"] ]

\* the relay's handler of a connection awaits the next frame
AtRecv == [pc |-> "recv"]

\* delegate_task has not been called
NotCalled == [pc |-> "idle"]

\* the internal ids as a set
InternalIdSet == {"u1", "u2", "u3"}

\* the remote address the connections to the registry come from
Keys == {"ip1"}

\* ticks of the monotonic clock in one minute
Minute == 2

Init ==
    /\ nodes = << >>
    /\ cap_index = << >>
    /\ reservations = << >>
    /\ ws_to_node = << >>
    /\ open = {}
    /\ now = StartTime
    /\ issued = 0
    /\ last = [type |-> "start", reservationId |-> NoRid]
    /\ reply = [type |-> "none"]
    /\ settled = << >>
    /\ awarded = [n \in NodeIds |-> 0]
    /\ steps = 0
    /\ pend = [ws \in Conns |-> Idle]
    /\ acked = {}
    /\ _nodes = << >>
    /\ _pending = << >>
    /\ internal_ids = 0
    /\ ws_node_id = [ws \in RelayConns |-> NoNode]
    /\ relay_conn = [ws \in RelayConns |-> "new"]
    /\ mono = 0
    /\ sent = {}
    /\ got = [server |-> "none"]
    /\ wire_steps = 0
    /\ relay_pc = [ws \in RelayConns |-> AtRecv]
    /\ answered = [rid \in InternalIdSet |-> [result |-> 0, timeout |-> 0]]
    /\ _buckets = << >>
    /\ _last_cleanup = 0
    /\ monotonic = 0
    /\ peer = << >>
    /\ admits = [key \in Keys |-> [age \in 0..Minute |-> 0]]
    /\ deleg = NotCalled
    /\ knowledge_packs = << >>
    /\ fs = NoSave
    /\ srv = NotStarted

\* what the history keeps of a handled frame
Handled(env) ==
    [ type |-> env.type,
      reservationId |-> IF env.type \in {"commit", "cancel"}
                        THEN env.reservationId ELSE NoRid ]

\* the guard that keeps the uuid counter within MaxRids
RidAvailable(env) == env.type = "reserve" => issued < MaxRids

Apply(o) ==
    /\ nodes' = o.nodes
    /\ cap_index' = o.cap_index
    /\ reservations' = o.reservations
    /\ issued' = o.issued
    /\ ws_to_node' = o.ws_to_node
    /\ settled' = o.settled
    /\ awarded' = o.awarded
    /\ reply' = o.reply

\* the connection object the server accepts next (connections are interchangeable)
NewConn == CHOOSE ws \in Conns \ open : TRUE

\* the readings the wall clock can give from now on
Times == now..MaxTime

\* a new connection is accepted and its first frame handled
\* (_handler up to the frame loop)
FirstFrame(env) ==
    /\ steps < MaxSteps
    /\ open # Conns
    /\ UNCHANGED wireVars
    /\ RidAvailable(env)
    /\ LET h == first_frame(env, NewConn, now)
       IN  /\ Apply(h.out)
           /\ open' = IF h.stays THEN open \cup {NewConn} ELSE open
    /\ last' = Handled(env)
    /\ steps' = steps + 1
    /\ UNCHANGED <<now, pend, acked>>

\* a later frame of an open connection is handled (the frame loop, _handle)
Frame(ws, env) ==
    /\ steps < MaxSteps
    /\ ws \in open
    /\ UNCHANGED wireVars
    /\ RidAvailable(env)
    /\ Apply(frame_loop(env, ws, now))
    /\ last' = Handled(env)
    /\ steps' = steps + 1
    /\ UNCHANGED <<open, now, pend, acked>>

\* the peer closes an open connection: the finally block of _handler
Close(ws) ==
    /\ steps < MaxSteps
    /\ ws \in open
    /\ UNCHANGED wireVars
    /\ open' = open \ {ws}
    /\ IF ws \in DOMAIN ws_to_node
       THEN /\ ws_to_node' = [w \in DOMAIN ws_to_node \ {ws} |-> ws_to_node[w]]
            /\ nodes' = set_offline(nodes, ws_to_node[ws], now)
       ELSE UNCHANGED <<ws_to_node, nodes>>
    /\ last' = [type |-> "close", reservationId |-> NoRid]
    /\ reply' = [type |-> "none"]
    /\ steps' = steps + 1
    /\ UNCHANGED <<cap_index, reservations, now, issued, settled, awarded,
                   pend, acked>>

\* time passes while no frame is handled and no sweep runs
Tick(t) ==
    /\ steps < MaxSteps
    /\ t > now
    /\ UNCHANGED wireVars
    /\ now' = t
    /\ steps' = steps + 1
    /\ UNCHANGED <<nodes, cap_index, reservations, ws_to_node, open, issued,
                   last, reply, settled, awarded, pend, acked>>

\* one iteration of RegistryServer._preauth_loop: the sleep, which ends at
\* time t, and the expiry
PreauthSweep(t) ==
    /\ steps < MaxSteps
    /\ UNCHANGED wireVars
    /\ LET r == expire_reservations(nodes, reservations, PreauthTtl, t)
       IN  /\ nodes' = r.nodes
           /\ reservations' = r.reservations
           /\ settled' = Settle(settled, reservations,
                                DOMAIN reservations \ DOMAIN r.reservations, "expire")
           /\ reply' = [type |-> "none", count |-> r.count]
    /\ last' = [type |-> "preauth_sweep", reservationId |-> NoRid]
    /\ now' = t
    /\ steps' = steps + 1
    /\ UNCHANGED <<cap_index, ws_to_node, open, issued, awarded, pend, acked>>

\* one iteration of RegistryServer._ttl_loop: the sleep, which ends at time t,
\* and the sweep
TtlSweep(t) ==
    /\ steps < MaxSteps
    /\ UNCHANGED wireVars
    /\ nodes' = apply_ttl(nodes, TtlSeconds, t)
    /\ last' = [type |-> "ttl_sweep", reservationId |-> NoRid]
    /\ reply' = [type |-> "none"]
    /\ now' = t
    /\ steps' = steps + 1
    /\ UNCHANGED <<cap_index, reservations, ws_to_node, open, issued,
                   settled, awarded, pend, acked>>

Next ==
    \/ \E env \in Frames : FirstFrame(env)
    \/ \E ws \in Conns, env \in Frames : Frame(ws, env)
    \/ \E ws \in Conns : Close(ws)
    \/ \E t \in Times : Tick(t)
    \/ \E t \in Times : PreauthSweep(t)
    \/ \E t \in Times : TtlSweep(t)

Spec == Init /\ [][Next]_allVars

\* the same state machine under a second name: the effects of cancel, reserve
\* and expiry and the settled-once rule are checked in a run of their own
SpecEffects == Init /\ [][Next]_allVars

(***************************************************************************)
(* The directory specification: the frames that create, change and list    *)
(* entries, a few ledger frames naming the first node, time and the TTL    *)
(* sweep                                                                   *)
(***************************************************************************)
\* the capability keys of DirPresentations
Caps == {"echo", "ocr"}

\* list frames with every page and page size that cuts the list of NodeIds
ListFrames ==
    { [id |-> RequestId, type |-> "list", onlineOnly |-> o, requireCapabilities |-> rc,
       page |-> pg, pageSize |-> sz] :
          o \in BOOLEAN, rc \in SUBSET Caps, pg \in {1, 2}, sz \in {0, 1} }

\* the frames of the directory specification: the registers of a node that
\* offers echo, every update, the syncs of a peer whose counters are 1, the
\* lists of the first page and of a second page of one, the ledger frames
\* that name the first node, and a frame that does not parse
DirFrames ==
    { [id |-> RequestId, type |-> "register", nodeId |-> n, pres |-> p, registryToken |-> RegistryToken] :
         n \in NodeIds, p \in { q \in DirPresentations : q.nodeName \in {"n1", "n4"} } }
    \cup { [id |-> RequestId, type |-> "update", nodeId |-> n, pres |-> p, registryToken |-> RegistryToken] :
         n \in NodeIds, p \in DirPresentations }
    \cup { e \in SyncFrames :
             \A i \in 1..Len(e.nodes) :
                e.nodes[i].balance = 1 /\ e.nodes[i].nodeName \in {"n1", "n2"} }
    \cup { e \in ListFrames :
             \/ e.page = 1 /\ e.pageSize = 0 /\ e.requireCapabilities # Caps
             \/ e.page = 2 /\ e.pageSize = 1 /\ e.requireCapabilities = {"echo"} }
    \cup { e \in LedgerFrames :
             \/ e.type = "report" /\ e.nodeId = "a" /\ e.ok
             \/ e.type = "reserve" /\ e.payerNode = "a" /\ e.nodeId = "b" /\ e.points = 1
             \/ e.type \in {"commit", "cancel"} /\ e.reservationId = 1
             \/ e.type = "award" /\ e.points = 1 /\ e.nodeId = "a" /\ e.payerNode = NoNode
             \/ e.type = "award" /\ e.points = 1 /\ e.nodeId = "b" /\ e.payerNode = "a" }
    \cup {Garbled}

NextDir ==
    \/ \E env \in DirFrames : FirstFrame(env)
    \/ \E ws \in Conns, env \in DirFrames : Frame(ws, env)
    \/ \E ws \in Conns : Close(ws)
    \/ \E t \in Times : Tick(t)
    \/ \E t \in Times : TtlSweep(t)

SpecDir == Init /\ [][NextDir]_allVars

\* the frames that write and read the capability index
IndexFrames == { e \in DirFrames : e.type \in {"register", "update", "sync", "list"} }

\* the directory without ledger frames and without the clock
NextIndex ==
    \/ \E env \in IndexFrames : FirstFrame(env)
    \/ \E ws \in Conns, env \in IndexFrames : Frame(ws, env)
    \/ \E ws \in Conns : Close(ws)

SpecIndex == Init /\ [][NextIndex]_allVars

(***************************************************************************)
(* Concurrent connections: a frame is in flight from the moment the client *)
(* sends it until the connection's handler coroutine reads it; the handler *)
(* runs from ws.recv() to its ws.send() without yielding (no state method  *)
(* awaits while it holds the lock), and the reply is in flight until the   *)
(* client reads it.  Handlers of different connections and the sweeps      *)
(* interleave at these points.                                             *)
(***************************************************************************)
\* the frames the concurrent clients send: register, every reserve of one
\* point or of a whole initial balance, commit and cancel of every id, the
\* awards of one point to the first node, one report, and the list of all nodes
ConcFrames ==
    { e \in RegisterFrames : e.type = "register" }
    \cup { e \in LedgerFrames : e.type = "reserve" /\ e.points \in {1, InitialPoints} }
    \cup { e \in LedgerFrames : e.type \in {"commit", "cancel"} /\ e.reservationId # NoRid }
    \cup { e \in LedgerFrames : e.type = "award" /\ e.points = 1 /\ e.nodeId = NodeOrder[1] }
    \cup { e \in LedgerFrames : e.type = "report" /\ e.ok /\ e.nodeId = NodeOrder[1] }
    \cup { e \in QueryFrames : e.type = "list" /\ e.requireCapabilities = {} /\ ~e.onlineOnly }

\* reserve frames in flight: each will draw a reservation id
ReservesInFlight ==
    { ws \in Conns : pend[ws].pc = "req" /\ pend[ws].env.type = "reserve" }

\* the connections a client can open: not open and nothing in flight
Fresh == { ws \in Conns \ open : pend[ws].pc = "idle" }

\* a client sends env on ws (a new connection if ws is not open); a list
\* remembers the commit_ok replies clients had read when it was sent
Issue(ws, env) ==
    /\ steps < MaxSteps
    /\ UNCHANGED wireVars
    /\ pend[ws].pc = "idle"
    /\ ws \in open \/ (Fresh # {} /\ ws = CHOOSE w \in Fresh : TRUE)
    /\ env.type = "reserve" => issued + Cardinality(ReservesInFlight) < MaxRids
    /\ pend' = [pend EXCEPT ![ws] =
                   [pc |-> "req", env |-> env,
                    seen |-> IF env.type = "list" THEN acked ELSE {}]]
    /\ steps' = steps + 1
    /\ UNCHANGED <<nodes, cap_index, reservations, ws_to_node, open, now, issued,
                   last, reply, settled, awarded, acked>>

\* the handler coroutine of ws reads the frame and runs up to its ws.send():
\* _handler for the first frame of a connection, _handle in the frame loop
Handle(ws) ==
    /\ UNCHANGED wireVars
    /\ pend[ws].pc = "req"
    /\ LET env == pend[ws].env
           h == IF ws \in open
                THEN [stays |-> TRUE, out |-> frame_loop(env, ws, now)]
                ELSE first_frame(env, ws, now)
       IN  /\ nodes' = h.out.nodes
           /\ cap_index' = h.out.cap_index
           /\ reservations' = h.out.reservations
           /\ issued' = h.out.issued
           /\ ws_to_node' = h.out.ws_to_node
           /\ settled' = h.out.settled
           /\ awarded' = h.out.awarded
           /\ open' = IF h.stays THEN open \cup {ws} ELSE open
           /\ pend' = [pend EXCEPT ![ws] =
                          [pc |-> "reply", env |-> env, reply |-> h.out.reply,
                           seen |-> pend[ws].seen]]
    /\ UNCHANGED <<now, steps, acked, last, reply>>

\* the client of ws reads the reply
Deliver(ws) ==
    /\ UNCHANGED wireVars
    /\ pend[ws].pc = "reply"
    /\ acked' = IF pend[ws].reply.type = "commit_ok"
                THEN acked \cup {pend[ws].env.reservationId}
                ELSE acked
    /\ pend' = [pend EXCEPT ![ws] = Idle]
    /\ UNCHANGED <<nodes, cap_index, reservations, ws_to_node, open, now, issued,
                   last, reply, settled, awarded, steps>>

NextConc ==
    \/ \E ws \in Conns, env \in ConcFrames : Issue(ws, env)
    \/ \E ws \in Conns : Handle(ws)
    \/ \E ws \in Conns : Deliver(ws)
    \/ \E t \in Times : PreauthSweep(t)

SpecConc == Init /\ [][NextConc]_allVars

(***************************************************************************)
(* RelayServer and NodeServer                                              *)
(***************************************************************************)
\* the ids the relay's uuid4 yields for its pending requests, in order
InternalIds == <<"u1", "u2", "u3">>

RelayToken == "rtok"
PendingTtl == 1
MaxMono == 3
MaxRelaySteps == 4

\* the payloads a relay_result carries
ResultPayloads == { [ok |-> TRUE, content |-> "out"], [ok |-> FALSE, message |-> "err"] }

\* the frames nodes and clients send the relay
RelayFrames ==
    { [id |-> i, type |-> "ping"] : i \in ClientIds }
    \cup { [id |-> "r1", type |-> "relay_hello", nodeId |-> n, relayToken |-> tok] :
             n \in {"a", NoNode}, tok \in {RelayToken, BadToken} }
    \cup { [id |-> i, type |-> "relay_request", nodeId |-> n, kind |-> "echo",
            prompt |-> p, serviceToken |-> "st", clientId |-> "cl",
            relayToken |-> RelayToken] :
             i \in ClientIds, n \in {"a", "b"}, p \in {"p1", "p2"} }
    \cup { [id |-> "r1", type |-> "relay_request", nodeId |-> n, kind |-> "echo",
            prompt |-> "p1", serviceToken |-> "st", clientId |-> "cl",
            relayToken |-> tok] :
             n \in {"a", NoNode}, tok \in {RelayToken, BadToken} }
    \cup { [id |-> i, type |-> "relay_result", payload |-> p] :
             i \in InternalIdSet \cup {"r1"}, p \in ResultPayloads }
    \cup { [id |-> i, type |-> "status"] : i \in ClientIds }

\* RelayServer._check_token
Relay_check_token(provided) ==
    IF RelayToken = "" THEN TRUE ELSE provided = RelayToken

\* one ws.send of the relay or of the node service: the envelope env goes to ws
Send(ws, env) == [to |-> ws, env |-> env]

\* RelayServer._cleanup_pending at time t: the pending table it leaves and the
\* timeout responses it sends
_cleanup_pending(pending, t) ==
    IF PendingTtl <= 0 \/ DOMAIN pending = {} THEN [pending |-> pending, sends |-> {}]
    ELSE LET expired == { rid \in DOMAIN pending : t - pending[rid].created_ts > PendingTtl }
         IN  [ pending |-> [rid \in DOMAIN pending \ expired |-> pending[rid]],
               sends |-> { Send(pending[rid].client_ws,
                                [id |-> IF pending[rid].client_id # NoId
                                        THEN pending[rid].client_id ELSE rid,
                                 type |-> "relay_response",
                                 payload |-> [ok |-> FALSE, message |-> "timeout"]]) :
                           rid \in expired } ]

\* what one pass of the loop of RelayServer._handler leaves
RelayOut(ns, pending, ids, node_id, sends) ==
    [ nodes |-> ns, pending |-> pending, ids |-> ids, node_id |-> node_id, sends |-> sends ]

\* RelayServer._handler, env.type == "relay_result"
relay_result(env, ws, ns, pending, ids, node_id, sends) ==
    IF env.id \notin DOMAIN pending THEN RelayOut(ns, pending, ids, node_id, sends)
    ELSE LET entry == pending[env.id]
             client_id == IF entry.client_id # NoId THEN entry.client_id ELSE env.id
         IN  RelayOut(ns, [rid \in DOMAIN pending \ {env.id} |-> pending[rid]], ids, node_id,
                      sends \cup { Send(entry.client_ws,
                                        [id |-> client_id, type |-> "relay_response",
                                         payload |-> env.payload]) })

\* relay_request that records the pending entry before it looks the node up
relay_request_pendsFirst(env, ws, ns, pending, ids, node_id, sends, t) ==
    IF ~Relay_check_token(env.relayToken)
    THEN RelayOut(ns, pending, ids, node_id,
                  sends \cup {Send(ws, Error(env, "invalid relay token"))})
    ELSE IF env.nodeId = NoNode
    THEN RelayOut(ns, pending, ids, node_id,
                  sends \cup {Send(ws, Error(env, "missing nodeId"))})
    ELSE LET internal_id == InternalIds[Min(ids + 1, Len(InternalIds))]
             recorded == [rid \in DOMAIN pending \cup {internal_id} |->
                             IF rid = internal_id
                             THEN [client_ws |-> ws, client_id |-> env.id, created_ts |-> t]
                             ELSE pending[rid]]
         IN  IF env.nodeId \notin DOMAIN ns
             THEN RelayOut(ns, recorded, ids + 1, node_id,
                           sends \cup {Send(ws, Error(env, "node offline"))})
             ELSE RelayOut(ns, recorded, ids + 1, node_id,
                           sends \cup { Send(ns[env.nodeId],
                                             [id |-> internal_id, type |-> "relay_task",
                                              payload |-> [nodeId |-> env.nodeId,
                                                           kind |-> env.kind,
                                                           prompt |-> env.prompt,
                                                           serviceToken |-> env.serviceToken,
                                                           clientId |-> env.clientId]]) })

\* RelayServer._handler, env.type == "relay_request"
relay_request(env, ws, ns, pending, ids, node_id, sends, t) ==
    IF ~Relay_check_token(env.relayToken)
    THEN RelayOut(ns, pending, ids, node_id,
                  sends \cup {Send(ws, Error(env, "invalid relay token"))})
    ELSE IF env.nodeId = NoNode
    THEN RelayOut(ns, pending, ids, node_id,
                  sends \cup {Send(ws, Error(env, "missing nodeId"))})
    ELSE IF env.nodeId \notin DOMAIN ns
    THEN RelayOut(ns, pending, ids, node_id,
                  sends \cup {Send(ws, Error(env, "node offline"))})
    ELSE LET internal_id == InternalIds[ids + 1]
         IN  RelayOut(ns,
                      [rid \in DOMAIN pending \cup {internal_id} |->
                          IF rid = internal_id
                          THEN [client_ws |-> ws, client_id |-> env.id, created_ts |-> t]
                          ELSE pending[rid]],
                      ids + 1, node_id,
                      sends \cup { Send(ns[env.nodeId],
                                        [id |-> internal_id, type |-> "relay_task",
                                         payload |-> [nodeId |-> env.nodeId,
                                                      kind |-> env.kind,
                                                      prompt |-> env.prompt,
                                                      serviceToken |-> env.serviceToken,
                                                      clientId |-> env.clientId]]) })

\* RelayServer._handler, env.type == "relay_hello"
relay_hello(env, ws, ns, pending, ids, node_id, sends) ==
    IF ~Relay_check_token(env.relayToken)
    THEN RelayOut(ns, pending, ids, node_id,
                  sends \cup {Send(ws, Error(env, "invalid relay token"))})
    ELSE IF env.nodeId = NoNode
    THEN RelayOut(ns, pending, ids, NoNode,
                  sends \cup {Send(ws, Error(env, "missing nodeId"))})
    ELSE RelayOut([n \in DOMAIN ns \cup {env.nodeId} |->
                      IF n = env.nodeId THEN ws ELSE ns[n]],
                  pending, ids, env.nodeId,
                  sends \cup {Send(ws, [id |-> env.id, type |-> "relay_hello_ok",
                                        nodeId |-> env.nodeId])})

\* the loop body of RelayServer._handler after the cleanup, for the frame raw
\* read from ws at time t: the parse, then the branch of the type; a frame of
\* another type falls through every branch
Relay_branch(raw, ws, ns, pending, ids, node_id, sends, t) ==
    IF raw = Garbled
    THEN RelayOut(ns, pending, ids, node_id,
                  sends \cup {Send(ws, [id |-> DrawnId, type |-> "error",
                                        message |-> "bad json"])})
    ELSE IF raw.type = "ping"
    THEN RelayOut(ns, pending, ids, node_id,
                  sends \cup {Send(ws, [id |-> raw.id, type |-> "pong"])})
    ELSE IF raw.type = "relay_hello"
    THEN relay_hello(raw, ws, ns, pending, ids, node_id, sends)
    ELSE IF raw.type = "relay_request"
    THEN relay_request(raw, ws, ns, pending, ids, node_id, sends, t)
    ELSE IF raw.type = "relay_result"
    THEN relay_result(raw, ws, ns, pending, ids, node_id, sends)
    ELSE RelayOut(ns, pending, ids, node_id, sends)

\* one pass of the loop of RelayServer._handler for the frame raw read from ws
\* at time t, when no other handler runs during its sends: the cleanup, then
\* the loop body
Relay_handler(raw, ws, ns, pending, ids, node_id, t) ==
    LET c == _cleanup_pending(pending, t)
    IN  Relay_branch(raw, ws, ns, c.pending, ids, node_id, c.sends, t)

\* the kinds of task NodeServer runs
Kinds == {"llm.chat", "echo", "zerobot.agent"}

ServiceToken == "st"

\* the frames clients send the node service
NodeFrames ==
    { [id |-> i, type |-> ty] : i \in ClientIds, ty \in {"ping", "status"} }
    \cup { [id |-> i, type |-> "task_run", serviceToken |-> tok, kind |-> k,
            prompt |-> p, clientId |-> "cl"] :
             i \in ClientIds, tok \in {ServiceToken, BadToken},
             k \in {"echo", "llm.chat", "shell"}, p \in {"p1", ""} }

\* NodeServer._check_token when the configured service token is token
Node_check(token, provided) ==
    IF token = "" THEN TRUE ELSE provided = token

\* NodeServer._check_token
Node_check_token(provided) == Node_check(ServiceToken, provided)

\* TaskExecutor.run: echo returns the prompt; the other kinds return the
\* output of the model or agent (ran) or raise
run(kind, prompt, ran) ==
    IF kind = "echo" THEN [ok |-> TRUE, content |-> prompt]
    ELSE IF ran THEN [ok |-> TRUE, content |-> "out"]
    ELSE [ok |-> FALSE, message |-> "failed"]

\* what one pass of the loop of NodeServer._handler leaves: the envelope it
\* sent, whether it called the executor, and whether the loop goes on
NodeOut(env, executed) == [reply |-> env, executed |-> executed, goes_on |-> TRUE]

\* a node service that runs the task before it looks at the prompt
Node_pass_runsFirst(token, raw, allowed, ran) ==
    IF raw = Garbled
    THEN NodeOut([id |-> DrawnId, type |-> "error", message |-> "bad json"], FALSE)
    ELSE IF ~allowed THEN NodeOut(Error(raw, "rate limited"), FALSE)
    ELSE IF raw.type = "ping" THEN NodeOut([id |-> raw.id, type |-> "pong"], FALSE)
    ELSE IF raw.type # "task_run" THEN NodeOut(Error(raw, "expected task_run"), FALSE)
    ELSE IF ~Node_check(token, raw.serviceToken)
    THEN NodeOut(Error(raw, "invalid service token"), FALSE)
    ELSE IF raw.kind \notin Kinds THEN NodeOut(Error(raw, "unsupported kind"), FALSE)
    ELSE IF raw.prompt = "" THEN NodeOut(Error(raw, "missing prompt"), TRUE)
    ELSE LET result == run(raw.kind, raw.prompt, ran)
         IN  IF result.ok
             THEN NodeOut([id |-> raw.id, type |-> "task_result",
                           content |-> result.content], TRUE)
             ELSE NodeOut([id |-> raw.id, type |-> "task_error",
                           message |-> result.message], TRUE)

\* one pass of the loop of NodeServer._handler with service token token
\* configured, for the frame raw, when the rate limiters allow the frame or
\* not and the executor's model or agent returns (ran) or raises
Node_pass(token, raw, allowed, ran) ==
    IF raw = Garbled
    THEN NodeOut([id |-> DrawnId, type |-> "error", message |-> "bad json"], FALSE)
    ELSE IF ~allowed THEN NodeOut(Error(raw, "rate limited"), FALSE)
    ELSE IF raw.type = "ping" THEN NodeOut([id |-> raw.id, type |-> "pong"], FALSE)
    ELSE IF raw.type # "task_run" THEN NodeOut(Error(raw, "expected task_run"), FALSE)
    ELSE IF ~Node_check(token, raw.serviceToken)
    THEN NodeOut(Error(raw, "invalid service token"), FALSE)
    ELSE IF raw.kind \notin Kinds THEN NodeOut(Error(raw, "unsupported kind"), FALSE)
    ELSE IF raw.prompt = "" THEN NodeOut(Error(raw, "missing prompt"), FALSE)
    ELSE LET result == run(raw.kind, raw.prompt, ran)
         IN  IF result.ok
             THEN NodeOut([id |-> raw.id, type |-> "task_result",
                           content |-> result.content], TRUE)
             ELSE NodeOut([id |-> raw.id, type |-> "task_error",
                           message |-> result.message], TRUE)

\* the envelope the node service sends for the frame raw
Node_handler(raw, allowed, ran) == Node_pass(ServiceToken, raw, allowed, ran).reply

(***************************************************************************)
(* The relay and the node service as a state machine: one action per frame *)
(* handled, connection closed and clock tick                               *)
(***************************************************************************)
\* the node_id local of the handler of ws
NodeIdOf(ws) == ws_node_id[ws]

\* the finally block of RelayServer._handler for ws, on the tables ns / pending
Relay_finally(ws, ns, pending, node_id) ==
    [ nodes |-> IF node_id # NoNode /\ node_id \in DOMAIN ns /\ ns[node_id] = ws
                THEN [n \in DOMAIN ns \ {node_id} |-> ns[n]] ELSE ns,
      pending |-> [rid \in { r \in DOMAIN pending : pending[r].client_ws # ws } |->
                      pending[rid]] ]

\* the relay reads raw from ws and runs one pass of its loop; a relay_task
\* whose send raises (the node's connection is gone) ends the handler of ws
RelayFrame(ws, raw) ==
    /\ wire_steps < MaxRelaySteps
    /\ relay_conn[ws] # "closed"
    /\ (raw # Garbled /\ raw.type = "relay_request") => internal_ids < Len(InternalIds)
    /\ LET r == Relay_handler(raw, ws, _nodes, _pending, internal_ids, NodeIdOf(ws), mono)
           lost == { s \in r.sends : s.env.type = "relay_task" /\ relay_conn[s.to] # "open"
                                     /\ s.to # ws }
           f == Relay_finally(ws, r.nodes, r.pending, r.node_id)
       IN  /\ internal_ids' = r.ids
           /\ sent' = { s \in r.sends \ lost : s.to = ws \/ relay_conn[s.to] = "open" }
           /\ IF lost = {}
              THEN /\ _nodes' = r.nodes
                   /\ _pending' = r.pending
                   /\ ws_node_id' = [ws_node_id EXCEPT ![ws] = r.node_id]
                   /\ relay_conn' = [relay_conn EXCEPT ![ws] = "open"]
              ELSE /\ _nodes' = f.nodes
                   /\ _pending' = f.pending
                   /\ ws_node_id' = [ws_node_id EXCEPT ![ws] = NoNode]
                   /\ relay_conn' = [relay_conn EXCEPT ![ws] = "closed"]
    /\ got' = [server |-> "relay", ws |-> ws, raw |-> raw]
    /\ wire_steps' = wire_steps + 1
    /\ UNCHANGED mono
    /\ UNCHANGED passVars
    /\ UNCHANGED sideVars
    /\ UNCHANGED vars

\* the peer closes its connection to the relay: the finally block
RelayClose(ws) ==
    /\ wire_steps < MaxRelaySteps
    /\ relay_conn[ws] = "open"
    /\ LET f == Relay_finally(ws, _nodes, _pending, NodeIdOf(ws))
       IN  /\ _nodes' = f.nodes
           /\ _pending' = f.pending
    /\ relay_conn' = [relay_conn EXCEPT ![ws] = "closed"]
    /\ ws_node_id' = [ws_node_id EXCEPT ![ws] = NoNode]
    /\ sent' = {}
    /\ got' = [server |-> "relay", ws |-> ws, raw |-> [type |-> "close"]]
    /\ wire_steps' = wire_steps + 1
    /\ UNCHANGED <<internal_ids, mono>>
    /\ UNCHANGED passVars
    /\ UNCHANGED sideVars
    /\ UNCHANGED vars

\* the monotonic clock of the relay advances
RelayTick(t) ==
    /\ wire_steps < MaxRelaySteps
    /\ t > mono /\ t <= MaxMono
    /\ mono' = t
    /\ wire_steps' = wire_steps + 1
    /\ UNCHANGED <<_nodes, _pending, internal_ids, ws_node_id, relay_conn, sent, got>>
    /\ UNCHANGED passVars
    /\ UNCHANGED sideVars
    /\ UNCHANGED vars

\* the node service reads raw from ws and answers it
NodeFrame(ws, raw, allowed, ran) ==
    /\ wire_steps < MaxRelaySteps
    /\ sent' = {Send(ws, Node_handler(raw, allowed, ran))}
    /\ got' = [server |-> "node", ws |-> ws, raw |-> raw, allowed |-> allowed,
               executed |-> Node_pass(ServiceToken, raw, allowed, ran).executed]
    /\ wire_steps' = wire_steps + 1
    /\ UNCHANGED <<_nodes, _pending, internal_ids, ws_node_id, relay_conn, mono>>
    /\ UNCHANGED passVars
    /\ UNCHANGED sideVars
    /\ UNCHANGED vars

\* the frames the relay reads in this specification: the hellos of node a,
\* requests with an id and with the empty id, results for the first internal
\* id and for an id that is not pending, a ping, a frame of another type and
\* a garbled one
WireRelayFrames ==
    { e \in RelayFrames :
        \/ e.type \in {"ping", "status"} /\ e.id = "r1"
        \/ e.type = "relay_hello"
        \/ e.type = "relay_request" /\ e.prompt = "p1" /\ e.id \in {"r1", NoId}
              /\ (e.nodeId = "b" => e.id = "r1")
        \/ e.type = "relay_result" /\ e.id \in {"u1", "r1"}
              /\ (e.id = "r1" => e.payload.ok) }
    \cup {Garbled}

\* the frames the node service reads in this specification
WireNodeFrames ==
    { e \in NodeFrames : e.id = "r1" /\ (e.type = "task_run" => e.kind # "llm.chat") }
    \cup {Garbled}

NextWire ==
    \/ \E ws \in RelayConns, raw \in WireRelayFrames : RelayFrame(ws, raw)
    \/ \E ws \in RelayConns : RelayClose(ws)
    \/ \E t \in 1..MaxMono : RelayTick(t)
    \/ \E raw \in WireNodeFrames, allowed \in BOOLEAN, ran \in BOOLEAN :
          NodeFrame("k1", raw, allowed, ran)

SpecWire == Init /\ [][NextWire]_allVars

\* the node service alone: every frame of NodeFrames and a garbled one, with
\* the rate limiters allowing it or not and the executor returning or raising
NextNode ==
    \E raw \in NodeFrames \cup {Garbled}, allowed \in BOOLEAN, ran \in BOOLEAN :
        NodeFrame("k1", raw, allowed, ran)

SpecNode == Init /\ [][NextNode]_allVars

(***************************************************************************)
(* The relay's handlers between their awaits: a handler runs from the      *)
(* frame it reads, or from the send it was suspended in, to its next send  *)
(***************************************************************************)
\* the position of rid in the order uuid4 yields the internal ids, which is
\* the order of the pending table
Idx(rid) == CHOOSE i \in 1..Len(InternalIds) : InternalIds[i] = rid

\* RelayServer._cleanup_pending, the list expired it computes at time t
expired(pending, t) ==
    IF PendingTtl <= 0 \/ DOMAIN pending = {} THEN {}
    ELSE { rid \in DOMAIN pending : t - pending[rid].created_ts > PendingTtl }

\* the timeout response for the pending entry rid
Timeout(pending, rid) ==
    Send(pending[rid].client_ws,
         [id |-> IF pending[rid].client_id # NoId THEN pending[rid].client_id ELSE rid,
          type |-> "relay_response",
          payload |-> [ok |-> FALSE, message |-> "timeout"]])

\* a sweep that answers an expired entry and leaves it in the table
sweep_one_keeps(pending, rid) ==
    IF rid \notin DOMAIN pending THEN [pending |-> pending, sends |-> {}]
    ELSE [ pending |-> pending, sends |-> {Timeout(pending, rid)} ]

\* RelayServer._cleanup_pending, the body of its loop for rid: the entry is
\* popped, and answered when it was still there
sweep_one(pending, rid) ==
    IF rid \notin DOMAIN pending THEN [pending |-> pending, sends |-> {}]
    ELSE [ pending |-> [r \in DOMAIN pending \ {rid} |-> pending[r]],
           sends |-> {Timeout(pending, rid)} ]

\* the handlers suspended in a sweep whose frame is a relay_request
Requesting ==
    { ws \in RelayConns : relay_pc[ws].pc = "sweep" /\ relay_pc[ws].raw # Garbled
                          /\ relay_pc[ws].raw.type = "relay_request" }

\* the response a step adds to the history: sends is what it sent, rid the
\* entry it sent it for, how the kind of response ("result" or "timeout")
Answering(rid, how, sends) ==
    IF \E s \in sends : s.env.type = "relay_response"
    THEN [answered EXCEPT ![rid][how] = @ + 1] ELSE answered

\* the handler of ws, with frame raw in hand and the rest todo of its expired
\* list, runs to its next send: the entries of todo that another handler
\* removed are skipped; the first one still pending is popped and answered,
\* and the handler is suspended in that send; with none left the loop body
\* runs and the handler reads the next frame
RelayRun(ws, raw, todo) ==
    LET live == todo \cap DOMAIN _pending
    IN  IF live # {}
        THEN LET rid == CHOOSE r \in live : \A o \in live : Idx(r) <= Idx(o)
                 o == sweep_one(_pending, rid)
             IN  /\ _pending' = o.pending
                 /\ answered' = Answering(rid, "timeout", o.sends)
                 /\ relay_pc' = [relay_pc EXCEPT ![ws] =
                        [pc |-> "sweep", raw |-> raw,
                         todo |-> { r \in todo : Idx(r) > Idx(rid) }]]
                 /\ relay_conn' = [relay_conn EXCEPT ![ws] = "open"]
                 /\ UNCHANGED <<_nodes, internal_ids, ws_node_id>>
        ELSE LET r == Relay_branch(raw, ws, _nodes, _pending, internal_ids,
                                   NodeIdOf(ws), {}, mono)
                 lost == { s \in r.sends : s.env.type = "relay_task"
                                           /\ relay_conn[s.to] # "open" /\ s.to # ws }
                 f == Relay_finally(ws, r.nodes, r.pending, r.node_id)
             IN  /\ internal_ids' = r.ids
                 /\ answered' = IF raw # Garbled /\ raw.type = "relay_result"
                                THEN Answering(raw.id, "result", r.sends) ELSE answered
                 /\ relay_pc' = [relay_pc EXCEPT ![ws] = AtRecv]
                 /\ IF lost = {}
                    THEN /\ _nodes' = r.nodes
                         /\ _pending' = r.pending
                         /\ ws_node_id' = [ws_node_id EXCEPT ![ws] = r.node_id]
                         /\ relay_conn' = [relay_conn EXCEPT ![ws] = "open"]
                    ELSE /\ _nodes' = f.nodes
                         /\ _pending' = f.pending
                         /\ ws_node_id' = [ws_node_id EXCEPT ![ws] = NoNode]
                         /\ relay_conn' = [relay_conn EXCEPT ![ws] = "closed"]

\* the handler of ws reads the frame raw: it computes the expired list and
\* runs to its first send
RelayRecv(ws, raw) ==
    /\ relay_conn[ws] # "closed"
    /\ relay_pc[ws] = AtRecv
    /\ (raw # Garbled /\ raw.type = "relay_request") =>
           internal_ids + Cardinality(Requesting) < Len(InternalIds)
    /\ RelayRun(ws, raw, expired(_pending, mono))
    /\ UNCHANGED <<mono, sent, got, wire_steps>>
    /\ UNCHANGED sideVars
    /\ UNCHANGED vars

\* the handler of ws resumes after the send of a timeout response
RelayResume(ws) ==
    /\ relay_pc[ws].pc = "sweep"
    /\ RelayRun(ws, relay_pc[ws].raw, relay_pc[ws].todo)
    /\ UNCHANGED <<mono, sent, got, wire_steps>>
    /\ UNCHANGED sideVars
    /\ UNCHANGED vars

\* the peer of ws closes the connection while the handler awaits a frame:
\* the finally block
RelayExit(ws) ==
    /\ relay_conn[ws] = "open"
    /\ relay_pc[ws] = AtRecv
    /\ LET f == Relay_finally(ws, _nodes, _pending, NodeIdOf(ws))
       IN  /\ _nodes' = f.nodes
           /\ _pending' = f.pending
    /\ relay_conn' = [relay_conn EXCEPT ![ws] = "closed"]
    /\ ws_node_id' = [ws_node_id EXCEPT ![ws] = NoNode]
    /\ UNCHANGED <<internal_ids, mono, sent, got, wire_steps, passVars>>
    /\ UNCHANGED sideVars
    /\ UNCHANGED vars

\* the monotonic clock of the relay advances by one
RelayClock ==
    /\ mono < MaxMono
    /\ mono' = mono + 1
    /\ UNCHANGED <<_nodes, _pending, internal_ids, ws_node_id, relay_conn, sent, got,
                   wire_steps, passVars>>
    /\ UNCHANGED sideVars
    /\ UNCHANGED vars

\* the frames the relay reads in this specification: the hello of node a, a
\* hello without nodeId, a request for a, the results of the internal ids
\* and a ping
PassFrames ==
    { e \in RelayFrames :
        \/ e.type = "ping" /\ e.id = "r1"
        \/ e.type = "relay_hello" /\ e.relayToken = RelayToken
        \/ e.type = "relay_request" /\ e.id = "r1" /\ e.nodeId = "a" /\ e.prompt = "p1"
              /\ e.relayToken = RelayToken
        \/ e.type = "relay_result" /\ e.id \in InternalIdSet /\ e.payload.ok }

\* the frames connection ws sends: k1 is the connection of a node, the others
\* are connections of clients
PassFramesOf(ws) ==
    { e \in PassFrames : e.type \in {"relay_hello", "relay_result"} <=> ws = "k1" }

NextPass ==
    \/ \E ws \in RelayConns : \E raw \in PassFramesOf(ws) : RelayRecv(ws, raw)
    \/ \E ws \in RelayConns : RelayResume(ws)
    \/ \E ws \in RelayConns : RelayExit(ws)
    \/ RelayClock

SpecPass == Init /\ [][NextPass]_allVars

(***************************************************************************)
(* TokenBucket and RateLimiter, and the registry behind its limiter        *)
(***************************************************************************)
\* RegistryServerConfig.rate_limit_per_min and rate_limit_burst
LimitRate == 1
LimitBurst == 1

\* RateLimiter.idle_ttl_s, in ticks: 300 seconds
IdleTtl == 5 * Minute

\* the last reading of the monotonic clock
MaxLimitTime == IdleTtl + 2 * Minute

\* token counts are kept in units of 1 / Minute of a token, which makes the
\* refill of one tick a whole number: the cost of a request is one token
Cost == Minute

\* TokenBucket.capacity
Capacity == LimitBurst * Minute

\* TokenBucket.create at time t
TokenBucket_create(t) == [tokens |-> Capacity, updated_at |-> t, last_seen |-> t]

\* a bucket that is refilled without regard to its capacity
TokenBucket_allow_noCap(b, t) ==
    LET elapsed == t - b.updated_at
        refilled == IF elapsed > 0
                    THEN [b EXCEPT !.tokens = @ + elapsed * Max(1, LimitRate),
                                   !.updated_at = t]
                    ELSE b
        seen == [refilled EXCEPT !.last_seen = t]
    IN  IF seen.tokens >= Cost
        THEN [bucket |-> [seen EXCEPT !.tokens = @ - Cost], ok |-> TRUE]
        ELSE [bucket |-> seen, ok |-> FALSE]

\* TokenBucket.allow at time t: the bucket it leaves and its answer
TokenBucket_allow(b, t) ==
    LET elapsed == t - b.updated_at
        refilled == IF elapsed > 0
                    THEN [b EXCEPT !.tokens = Min(Capacity, @ + elapsed * Max(1, LimitRate)),
                                   !.updated_at = t]
                    ELSE b
        seen == [refilled EXCEPT !.last_seen = t]
    IN  IF seen.tokens >= Cost
        THEN [bucket |-> [seen EXCEPT !.tokens = @ - Cost], ok |-> TRUE]
        ELSE [bucket |-> seen, ok |-> FALSE]

\* RateLimiter._cleanup_if_needed at time t
_cleanup_if_needed(buckets, last_cleanup, t) ==
    IF t - last_cleanup < IdleTtl
    THEN [buckets |-> buckets, last_cleanup |-> last_cleanup]
    ELSE [ buckets |-> [k \in { q \in DOMAIN buckets :
                                  ~(buckets[q].last_seen < t - IdleTtl) } |-> buckets[k]],
           last_cleanup |-> t ]

\* RateLimiter.allow(key) at time t
RateLimiter_allow(buckets, last_cleanup, key, t) ==
    LET c == _cleanup_if_needed(buckets, last_cleanup, t)
        bucket == IF key \in DOMAIN c.buckets THEN c.buckets[key]
                  ELSE TokenBucket_create(t)
        a == TokenBucket_allow(bucket, t)
    IN  [ buckets |-> [k \in DOMAIN c.buckets \cup {key} |->
                          IF k = key THEN a.bucket ELSE c.buckets[k]],
          last_cleanup |-> c.last_cleanup,
          ok |-> a.ok ]

\* RegistryServer._handler up to the frame loop, with the answer allowed of
\* _allow_client: a denied first frame is answered and the handler returns
limited_first(raw, ws, t, allowed) ==
    IF raw # Garbled /\ ~allowed
    THEN [out |-> Unchanged(Error(raw, "rate limited")), stays |-> FALSE]
    ELSE first_frame(raw, ws, t)

\* one pass of the frame loop of RegistryServer._handler, with the answer
\* allowed of _allow_client in _handle
limited_loop(raw, ws, t, allowed) ==
    IF raw # Garbled /\ ~allowed
    THEN Unchanged(Error(raw, "rate limited"))
    ELSE frame_loop(raw, ws, t)

\* the frames the registry reads in this specification
LimitFrames ==
    { e \in RegisterFrames : e.nodeId = "a" /\ (e.type = "update" => e.pres.nodeName = "n2") }
    \cup { e \in QueryFrames : e.type = "ping" }

\* the history of admissions after the limiter answered ok for key
Admitted(key, ok) ==
    IF ok THEN [admits EXCEPT ![key][0] = @ + 1] ELSE admits

\* a new connection from address key is accepted and its first frame passes
\* the limiter, or not
LimitedFirst(env, key) ==
    /\ open # Conns
    /\ LET a == RateLimiter_allow(_buckets, _last_cleanup, key, monotonic)
           h == limited_first(env, NewConn, now, a.ok)
       IN  /\ _buckets' = a.buckets
           /\ _last_cleanup' = a.last_cleanup
           /\ admits' = Admitted(key, a.ok)
           /\ Apply(h.out)
           /\ open' = IF h.stays THEN open \cup {NewConn} ELSE open
           /\ peer' = IF h.stays
                      THEN [w \in DOMAIN peer \cup {NewConn} |->
                               IF w = NewConn THEN key ELSE peer[w]]
                      ELSE peer
    /\ last' = Handled(env)
    /\ UNCHANGED <<now, steps, pend, acked, monotonic>>
    /\ UNCHANGED relayVars
    /\ UNCHANGED clientVars
    /\ UNCHANGED storeVars

\* a later frame of an open connection passes the limiter, or not
LimitedFrame(ws, env) ==
    /\ ws \in open
    /\ LET a == RateLimiter_allow(_buckets, _last_cleanup, peer[ws], monotonic)
       IN  /\ _buckets' = a.buckets
           /\ _last_cleanup' = a.last_cleanup
           /\ admits' = Admitted(peer[ws], a.ok)
           /\ Apply(limited_loop(env, ws, now, a.ok))
    /\ last' = Handled(env)
    /\ UNCHANGED <<open, now, steps, pend, acked, monotonic, peer>>
    /\ UNCHANGED relayVars
    /\ UNCHANGED clientVars
    /\ UNCHANGED storeVars

\* the monotonic clock advances by d ticks
LimitTick(d) ==
    /\ monotonic + d <= MaxLimitTime
    /\ monotonic' = monotonic + d
    /\ admits' = [key \in Keys |-> [age \in 0..Minute |->
                      IF age >= d THEN admits[key][age - d] ELSE 0]]
    /\ UNCHANGED <<_buckets, _last_cleanup, peer>>
    /\ UNCHANGED vars
    /\ UNCHANGED relayVars
    /\ UNCHANGED clientVars
    /\ UNCHANGED storeVars

NextLimit ==
    \/ \E env \in LimitFrames, key \in Keys : LimitedFirst(env, key)
    \/ \E ws \in Conns, env \in LimitFrames : LimitedFrame(ws, env)
    \/ \E d \in {1, IdleTtl} : LimitTick(d)

SpecLimit == Init /\ [][NextLimit]_allVars

(***************************************************************************)
(* Ledger properties                                                       *)
(***************************************************************************)
\* sum of the points of the reservations S of table rs
RECURSIVE SumPoints(_, _)
SumPoints(rs, S) ==
    IF S = {} THEN 0
    ELSE LET r == CHOOSE x \in S : TRUE
         IN  rs[r].points + SumPoints(rs, S \ {r})

\* the outstanding reservations of rs whose payerNode is n
HeldBy(rs, n) == { r \in DOMAIN rs : rs[r].payerNode = n }

\* the ledger fields of an entry
Ledger(e) ==
    [ balance |-> e.balance, held_points |-> e.held_points,
      spent_points |-> e.spent_points, earned_points |-> e.earned_points,
      completed_tasks |-> e.completed_tasks ]

\* the ledger of entry e with the given amounts added
Moved(e, d_balance, d_held, d_spent, d_earned, d_completed) ==
    [ balance |-> e.balance + d_balance, held_points |-> e.held_points + d_held,
      spent_points |-> e.spent_points + d_spent,
      earned_points |-> e.earned_points + d_earned,
      completed_tasks |-> e.completed_tasks + d_completed ]

Pts(cond, points) == IF cond THEN points ELSE 0

PayerSum(e) == e.balance + e.held_points + e.spent_points
ProviderDiff(e) == e.balance - e.earned_points

\* frames the properties quantify over: every well-formed frame of a type,
\* with the token of this deployment
ReserveFrame(provider, payer, points) ==
    [id |-> RequestId, type |-> "reserve", nodeId |-> provider, payerNode |-> payer, points |-> points,
     registryToken |-> RegistryToken]
AwardFrame(provider, payer, points) ==
    [id |-> RequestId, type |-> "award", nodeId |-> provider, points |-> points, payerNode |-> payer,
     registryToken |-> RegistryToken]
CommitFrame(rid) ==
    [id |-> RequestId, type |-> "commit", reservationId |-> rid, registryToken |-> RegistryToken]
CancelFrame(rid) ==
    [id |-> RequestId, type |-> "cancel", reservationId |-> rid, registryToken |-> RegistryToken]

\* C1: in every reachable state every node has balance >= 0 and heldPoints >= 0.
C1_NonNegative ==
    \A n \in DOMAIN nodes : nodes[n].balance >= 0 /\ nodes[n].held_points >= 0

\* a reserve has taken a payer's whole balance: balance is 0 with points held
C1_Witness ==
    \E n \in DOMAIN nodes :
        /\ nodes[n].balance = 0
        /\ nodes[n].held_points = InitialPoints
        /\ last.type = "reserve"

\* C2: in every reachable state each node's heldPoints is the sum of the points
\* of the outstanding reservations it pays, and those points are out of its
\* balance: balance = initialPoints + earnedPoints - spentPoints - heldPoints.
C2_HeldIsReserved ==
    \A n \in DOMAIN nodes :
        /\ nodes[n].held_points = SumPoints(reservations, HeldBy(reservations, n))
        /\ nodes[n].balance =
              InitialPoints + nodes[n].earned_points - nodes[n].spent_points
              - SumPoints(reservations, HeldBy(reservations, n))

\* one payer holds two outstanding reservations of one point each
C2_Witness ==
    \E n \in DOMAIN nodes :
        /\ Cardinality(HeldBy(reservations, n)) = 2
        /\ nodes[n].held_points = 2

\* the original statement of C3: every successful reserve, commit, cancel and
\* award leaves the payer's balance + held + spent and the provider's
\* balance - earned unchanged, for every payer and provider the registry accepts
C3_Original ==
    /\ \A pr \in NodeIds, pa \in NodeIds, k \in PointsIn :
          LET o == HandleReserve(ReserveFrame(pr, pa, k), now)
          IN  o.reply.type = "reserve_ok" =>
                 /\ PayerSum(o.nodes[pa]) = PayerSum(nodes[pa])
                 /\ ProviderDiff(o.nodes[pr]) = ProviderDiff(nodes[pr])
    /\ \A r \in DOMAIN reservations :
          LET pa == reservations[r].payerNode
              pr == reservations[r].providerNode
              o == HandleCommit(CommitFrame(r), now)
              c == HandleCancel(CancelFrame(r), now)
          IN  /\ o.reply.type = "commit_ok" =>
                    /\ PayerSum(o.nodes[pa]) = PayerSum(nodes[pa])
                    /\ ProviderDiff(o.nodes[pr]) = ProviderDiff(nodes[pr])
              /\ c.reply.type = "cancel_ok" =>
                    /\ PayerSum(c.nodes[pa]) = PayerSum(nodes[pa])
                    /\ ProviderDiff(c.nodes[pr]) = ProviderDiff(nodes[pr])
    /\ \A pr \in NodeIds, pa \in ReqNodeIds, k \in PointsIn :
          LET o == HandleAward(AwardFrame(pr, pa, k), now)
          IN  o.reply.type = "award_ok" =>
                 /\ pa # NoNode => PayerSum(o.nodes[pa]) = PayerSum(nodes[pa])
                 /\ ProviderDiff(o.nodes[pr]) = ProviderDiff(nodes[pr])

\* what C3 asks of one successful operation, amended: with payer # provider the
\* payer's balance + held + spent and the provider's balance - earned are
\* unchanged; with payer = provider the node's balance + held + spent - earned is
Preserved(after, pa, pr) ==
    /\ pa # NoNode /\ pa # pr => PayerSum(after[pa]) = PayerSum(nodes[pa])
    /\ pa # pr => ProviderDiff(after[pr]) = ProviderDiff(nodes[pr])
    /\ pa = pr => PayerSum(after[pa]) - after[pa].earned_points
                  = PayerSum(nodes[pa]) - nodes[pa].earned_points

\* C3 (amended): every successful reserve, commit, cancel and award leaves the
\* payer's balance + held + spent and the provider's balance - earned unchanged
\* when payer and provider are different nodes (an award without payer: the
\* provider's balance - earned); when they are the same node it leaves that
\* node's balance + held + spent - earned unchanged.
C3_Conservation ==
    /\ \A pr \in NodeIds, pa \in NodeIds, k \in PointsIn :
          LET o == HandleReserve(ReserveFrame(pr, pa, k), now)
          IN  o.reply.type = "reserve_ok" => Preserved(o.nodes, pa, pr)
    /\ \A r \in DOMAIN reservations :
          LET pa == reservations[r].payerNode
              pr == reservations[r].providerNode
              o == HandleCommit(CommitFrame(r), now)
              c == HandleCancel(CancelFrame(r), now)
          IN  /\ o.reply.type = "commit_ok" => Preserved(o.nodes, pa, pr)
              /\ c.reply.type = "cancel_ok" => Preserved(c.nodes, pa, pr)
    /\ \A pr \in NodeIds, pa \in ReqNodeIds, k \in PointsIn :
          LET o == HandleAward(AwardFrame(pr, pa, k), now)
          IN  o.reply.type = "award_ok" => Preserved(o.nodes, pa, pr)

\* a reservation between two different nodes was committed
C3_Witness ==
    /\ last.type = "commit"
    /\ reply.type = "commit_ok"
    /\ last.reservationId \in DOMAIN settled
    /\ settled[last.reservationId].how = "commit"
    /\ settled[last.reservationId].payerNode # settled[last.reservationId].providerNode

\* number of reservations committed with n as provider
CommitsTo(n) ==
    Cardinality({ r \in DOMAIN settled :
                    settled[r].how = "commit" /\ settled[r].providerNode = n })

\* C4: a successful commit of R(payer, provider, pts) takes pts from
\* heldPoints[payer] to spentPoints[payer], adds pts to balance[provider] and to
\* earnedPoints[provider], adds 1 to completedTasks[provider], removes R and
\* changes no other ledger field of any node (the payer's balance only as the
\* provider's credit when payer = provider); completedTasks of a node is the
\* number of commits naming it as provider plus the number of awards to it.
C4_CommitEffect ==
    /\ \A r \in DOMAIN reservations :
          LET pa == reservations[r].payerNode
              pr == reservations[r].providerNode
              k == reservations[r].points
              o == HandleCommit(CommitFrame(r), now)
          IN  o.reply.type = "commit_ok" =>
                 /\ DOMAIN o.nodes = DOMAIN nodes
                 /\ \A n \in DOMAIN nodes :
                       Ledger(o.nodes[n]) =
                          Moved(nodes[n], Pts(n = pr, k), - Pts(n = pa, k),
                                Pts(n = pa, k), Pts(n = pr, k), Pts(n = pr, 1))
                 /\ pa # pr => o.nodes[pa].balance = nodes[pa].balance
                 /\ DOMAIN o.reservations = DOMAIN reservations \ {r}
                 /\ \A x \in DOMAIN o.reservations : o.reservations[x] = reservations[x]
    /\ \A n \in DOMAIN nodes :
          nodes[n].completed_tasks = CommitsTo(n) + awarded[n]

\* a commit between two different nodes was answered commit_ok and the provider
\* holds the points
C4_Witness ==
    /\ last.type = "commit"
    /\ reply.type = "commit_ok"
    /\ \E r \in DOMAIN settled :
          /\ r = last.reservationId
          /\ settled[r].how = "commit"
          /\ settled[r].payerNode # settled[r].providerNode
          /\ nodes[settled[r].providerNode].completed_tasks = 1
          /\ nodes[settled[r].providerNode].balance = InitialPoints + settled[r].points

\* C5: cancel of an outstanding reservation R(payer, provider, pts) adds pts to
\* balance[payer], takes pts from heldPoints[payer], leaves every other node
\* (the provider) as it was and removes R; a reserve followed by the cancel of
\* its reservation gives back every node's balance and heldPoints exactly.
C5_CancelRestores ==
    /\ \A r \in DOMAIN reservations :
          LET pa == reservations[r].payerNode
              k == reservations[r].points
              c == HandleCancel(CancelFrame(r), now)
          IN  /\ c.reply.type = "cancel_ok"
              /\ Ledger(c.nodes[pa]) = Moved(nodes[pa], k, - k, 0, 0, 0)
              /\ \A n \in DOMAIN nodes \ {pa} : c.nodes[n] = nodes[n]
              /\ DOMAIN c.nodes = DOMAIN nodes
              /\ DOMAIN c.reservations = DOMAIN reservations \ {r}
              /\ \A x \in DOMAIN c.reservations : c.reservations[x] = reservations[x]
    /\ \A pr \in NodeIds, pa \in NodeIds, k \in PointsIn :
          LET o == HandleReserve(ReserveFrame(pr, pa, k), now)
              c == cancel(o.nodes, o.reservations, o.reply.reservationId, now)
          IN  o.reply.type = "reserve_ok" =>
                 /\ c.ok
                 /\ c.reservations = reservations
                 /\ \A n \in DOMAIN nodes : Ledger(c.nodes[n]) = Ledger(nodes[n])

\* a reservation between two different nodes was cancelled and the payer has
\* its initial balance again
C5_Witness ==
    /\ last.type = "cancel"
    /\ reply.type = "cancel_ok"
    /\ \E r \in DOMAIN settled :
          /\ r = last.reservationId
          /\ settled[r].how = "cancel"
          /\ settled[r].payerNode # settled[r].providerNode
          /\ nodes[settled[r].payerNode].balance = InitialPoints
          /\ nodes[settled[r].payerNode].held_points = 0

\* C6: reserve is answered with an error, creates no reservation and changes no
\* node when the payer is unknown, the provider is unknown, points <= 0 or
\* balance[payer] < points; otherwise it is answered reserve_ok with a
\* reservationId that is not outstanding, takes points from balance[payer] and
\* adds them to heldPoints[payer].
C6_ReserveGuards ==
    \A pr \in NodeIds, pa \in NodeIds, k \in (-1)..MaxPoints :
        LET o == HandleReserve(ReserveFrame(pr, pa, k), now)
            refused == \/ pa \notin DOMAIN nodes
                       \/ pr \notin DOMAIN nodes
                       \/ k <= 0
                       \/ nodes[pa].balance < k
        IN  IF refused
            THEN /\ o.reply.type = "error"
                 /\ o.reservations = reservations
                 /\ o.nodes = nodes
            ELSE /\ o.reply.type = "reserve_ok"
                 /\ o.reply.reservationId \notin DOMAIN reservations
                 /\ DOMAIN o.reservations = DOMAIN reservations \cup {o.reply.reservationId}
                 /\ o.reservations[o.reply.reservationId].payerNode = pa
                 /\ o.reservations[o.reply.reservationId].providerNode = pr
                 /\ o.reservations[o.reply.reservationId].points = k
                 /\ o.nodes[pa].balance = nodes[pa].balance - k
                 /\ o.nodes[pa].held_points = nodes[pa].held_points + k
                 /\ \A n \in DOMAIN nodes \ {pa} : o.nodes[n] = nodes[n]

\* a reserve between two registered nodes was refused for lack of balance while
\* an earlier reservation holds the payer's points
C6_Witness ==
    /\ last.type = "reserve"
    /\ reply.type = "error"
    /\ reply.message = "insufficient balance or node missing"
    /\ DOMAIN nodes = NodeIds
    /\ reservations # << >>

\* C7: a reservation is settled at most once: a commit or cancel naming a
\* reservationId that is not outstanding (removed by commit, cancel or the expiry
\* sweep, or never issued) is answered with an error and changes no node and no
\* reservation; a reservationId that was removed is never outstanding again.
C7_SettledOnce ==
    /\ \A r \in RidsIn \ DOMAIN reservations :
          LET o == HandleCommit(CommitFrame(r), now)
              c == HandleCancel(CancelFrame(r), now)
          IN  /\ o.reply.type = "error" /\ o.nodes = nodes /\ o.reservations = reservations
              /\ c.reply.type = "error" /\ c.nodes = nodes /\ c.reservations = reservations
    /\ DOMAIN settled \cap DOMAIN reservations = {}
    /\ DOMAIN settled \cup DOMAIN reservations = 1..issued

\* a commit named a reservation the expiry sweep had removed, and was refused
C7_Witness ==
    /\ last.type = "commit"
    /\ reply.type = "error"
    /\ last.reservationId \in DOMAIN settled
    /\ settled[last.reservationId].how = "expire"

\* C8: the expiry sweep removes every reservation older than preauthTtl and
\* gives its points back to the payer (balance += pts, heldPoints -= pts, every
\* other field and node untouched); it removes no reservation younger than
\* preauthTtl.
C8_ExpiryRefunds ==
    \A t \in Times :
        LET o == expire_reservations(nodes, reservations, PreauthTtl, t)
            gone == DOMAIN reservations \ DOMAIN o.reservations
        IN  /\ \A r \in DOMAIN reservations :
                  /\ t - reservations[r].createdTs > PreauthTtl => r \in gone
                  /\ t - reservations[r].createdTs < PreauthTtl => r \notin gone
            /\ \A r \in DOMAIN o.reservations : o.reservations[r] = reservations[r]
            /\ o.count = Cardinality(gone)
            /\ DOMAIN o.nodes = DOMAIN nodes
            /\ \A n \in DOMAIN nodes :
                  LET back == SumPoints(reservations, HeldBy(reservations, n) \cap gone)
                  IN  /\ Ledger(o.nodes[n]) = Moved(nodes[n], back, - back, 0, 0, 0)
                      /\ back = 0 => o.nodes[n] = nodes[n]

\* the sweep removed a reservation between two different nodes and the payer
\* has its points back
C8_Witness ==
    /\ last.type = "preauth_sweep"
    /\ reply.count >= 1
    /\ \E r \in DOMAIN settled :
          /\ settled[r].how = "expire"
          /\ settled[r].payerNode # settled[r].providerNode
          /\ nodes[settled[r].payerNode].balance = InitialPoints
          /\ nodes[settled[r].payerNode].held_points = 0

(***************************************************************************)
(* Concurrent connections                                                  *)
(***************************************************************************)
\* the reservations of S (all settled) that node n paid / was paid for
PaidBy(S, n) == { r \in S : settled[r].payerNode = n }
PaidTo(S, n) == { r \in S : settled[r].providerNode = n }

\* a list_result whose every node shows the commits of S: their points are
\* in spentPoints of the payer, in earnedPoints and (as balance + heldPoints +
\* spentPoints - earnedPoints = initialPoints) in the balance of the provider
ShowsCommits(rep, S) ==
    \A i \in 1..Len(rep.nodes) :
        LET it == rep.nodes[i]
        IN  /\ it.spentPoints >= SumPoints(settled, PaidBy(S, it.nodeId))
            /\ it.earnedPoints >= SumPoints(settled, PaidTo(S, it.nodeId))
            /\ it.completedTasks >= Cardinality(PaidTo(S, it.nodeId))
            /\ it.heldPoints >= 0
            /\ it.balance >= 0
            /\ it.balance + it.heldPoints + it.spentPoints - it.earnedPoints
                  = InitialPoints

\* the connections that have a reserve frame for payer n in flight
Reserving(n) ==
    { ws \in ReservesInFlight :
         /\ pend[ws].env.payerNode = n
         /\ pend[ws].env.registryToken = RegistryToken }

C9_ConcurrentReserves ==
    \E w1 \in Conns, w2 \in Conns :
        /\ pend[w1].pc = "reply" /\ pend[w1].env.type = "reserve"
        /\ pend[w2].pc = "reply" /\ pend[w2].env.type = "reserve"
        /\ pend[w1].env.payerNode = pend[w2].env.payerNode
        /\ pend[w1].reply.type = "reserve_ok"
        /\ pend[w2].reply.type = "error"
        /\ pend[w2].reply.message = "insufficient balance or node missing"
        /\ pend[w2].env.nodeId \in DOMAIN nodes

(***************************************************************************)
(* The first frame of a connection                                         *)
(***************************************************************************)
\* the replies that serve a reserve, commit, cancel, report or resolve
Served == {"reserve_ok", "commit_ok", "cancel_ok", "report_ok", "resolve_ok"}

\* C10: a valid reserve, commit, cancel, report or resolve (one the frame loop
\* answers reserve_ok, commit_ok, cancel_ok, report_ok or resolve_ok) gets the
\* same answer when it is the first frame of a new connection.
C10_ServedAsFirstFrame ==
    open # Conns =>
        \A env \in { e \in Frames :
                       /\ e.type \in {"reserve", "commit", "cancel", "report", "resolve"}
                       /\ (e.type = "report" => e.nodeId \in DOMAIN nodes) } :
            LET served == _handle(env, NewConn, now)
                first == _handler(env, NewConn, now)
            IN  served.reply.type \in Served =>
                   /\ first.stays
                   /\ first.out.reply = served.reply
                   /\ first.out.nodes = served.nodes
                   /\ first.out.reservations = served.reservations

(***************************************************************************)
(* The directory: register, update, sync, list, TTL                        *)
(***************************************************************************)
\* the ledger and telemetry counters of an entry
Counters(e) ==
    [ balance |-> e.balance, held_points |-> e.held_points,
      spent_points |-> e.spent_points, earned_points |-> e.earned_points,
      completed_tasks |-> e.completed_tasks, success_count |-> e.success_count,
      fail_count |-> e.fail_count, total_latency_ms |-> e.total_latency_ms ]

\* the counters of an entry a first register creates
FreshCounters ==
    [ balance |-> InitialPoints, held_points |-> 0, spent_points |-> 0,
      earned_points |-> 0, completed_tasks |-> 0, success_count |-> 0,
      fail_count |-> 0, total_latency_ms |-> 0 ]

\* what the server does with env read from ws: _handler for the first frame
\* of a connection, _handle in the frame loop
Answer(env, ws) ==
    IF ws \in open THEN frame_loop(env, ws, now) ELSE first_frame(env, ws, now).out

\* C11: a register or update for a nodeId that has an entry leaves the entry's
\* balance, heldPoints, spentPoints, earnedPoints, completedTasks,
\* successCount, failCount and totalLatencyMs unchanged, and a register for a
\* nodeId without entry creates it with balance initialPoints and the other
\* counters 0; no other entry changes.  With registers of one nodeId in
\* flight on concurrent connections, every node has received initialPoints
\* exactly once: balance + held + spent - earned = initialPoints.
C11_RegisterKeepsCounters ==
    /\ \A n \in DOMAIN nodes :
          PayerSum(nodes[n]) - nodes[n].earned_points = InitialPoints
    /\ \A ws \in Conns, env \in RegisterFrames :
          LET o == Answer(env, ws)
          IN  /\ \A n \in DOMAIN nodes : Counters(o.nodes[n]) = Counters(nodes[n])
              /\ \A n \in DOMAIN o.nodes \ DOMAIN nodes :
                    /\ n = env.nodeId
                    /\ o.reply.type = "register_ok"
                    /\ Counters(o.nodes[n]) = FreshCounters

\* a second connection has registered a node after the node reserved points
\* on its first connection: both connections are bound to the node, the
\* register_ok is on its way, and the entry was last seen (by the register)
\* after the reservation was made
C11_Witness ==
    \E w1 \in Conns, w2 \in Conns, r \in DOMAIN reservations :
        /\ w1 # w2
        /\ w1 \in DOMAIN ws_to_node /\ w2 \in DOMAIN ws_to_node
        /\ ws_to_node[w1] = ws_to_node[w2]
        /\ pend[w2].pc = "reply" /\ pend[w2].reply.type = "register_ok"
        /\ reservations[r].payerNode = ws_to_node[w2]
        /\ nodes[ws_to_node[w2]].held_points > 0
        /\ nodes[ws_to_node[w2]].last_seen_ts > reservations[r].createdTs

\* the update frames the properties quantify over
UpdateFrames ==
    { [id |-> RequestId, type |-> "update", nodeId |-> n, pres |-> p, registryToken |-> RegistryToken] :
         n \in NodeIds, p \in DirPresentations }

\* ws is an open connection whose register for node n succeeded
BoundTo(ws, n) == ws \in open /\ ws \in DOMAIN ws_to_node /\ ws_to_node[ws] = n

\* C12: an update for node N is applied (update_ok, the entry taking the
\* frame's presentation) only on an open connection bound to N, and a
\* connection is bound only by its own register, to a node that has an entry;
\* on any other connection the update is answered with an error and the
\* entries and the capability index stay as they are.
C12_UpdateOnlyWhenBound ==
    /\ \A ws \in DOMAIN ws_to_node : ws \in open /\ ws_to_node[ws] \in DOMAIN nodes
    /\ \A ws \in Conns, env \in UpdateFrames :
          LET o == Answer(env, ws)
          IN  IF BoundTo(ws, env.nodeId)
              THEN /\ o.reply.type = "update_ok"
                   /\ o.nodes[env.nodeId].capabilities = env.pres.capabilities
                   /\ o.nodes[env.nodeId].node_name = env.pres.nodeName
              ELSE /\ o.reply.type = "error"
                   /\ o.nodes = nodes
                   /\ o.cap_index = cap_index

\* with each connection bound to a node, an update naming the node of the
\* other connection was refused
C12_Witness ==
    /\ last.type = "update"
    /\ reply.type = "error" /\ reply.message = "unauthorized update"
    /\ Cardinality(DOMAIN ws_to_node) = 2
    /\ \E w1 \in DOMAIN ws_to_node, w2 \in DOMAIN ws_to_node :
          ws_to_node[w1] # ws_to_node[w2]

\* entry e offers capability cap: the key is in its map with a truthy value
Truthy(e, cap) == cap \in DOMAIN e.capabilities /\ e.capabilities[cap]

\* the node ids a list asking for env.requireCapabilities / env.onlineOnly is
\* to return from the entries ns
Matching(ns, env) ==
    { n \in DOMAIN ns :
        /\ \A cap \in env.requireCapabilities : Truthy(ns[n], cap)
        /\ env.onlineOnly => ns[n].online }

\* the page and page size a list frame asks for
PageOf(env) == IF env.page = 0 THEN 1 ELSE env.page
PageSizeOf(env) == IF env.pageSize = 0 THEN DefaultPageSize ELSE env.pageSize

\* rep.nodes is the page of the ids S in ascending order: its i-th item is the
\* id of S with exactly (page - 1) * pageSize + i - 1 ids of S below it, and
\* it stops with the page or with S
IsPage(rep, S, ns, env) ==
    LET start == (PageOf(env) - 1) * PageSizeOf(env)
    IN  /\ rep.type = "list_result"
        /\ rep.total = Cardinality(S)
        /\ Len(rep.nodes) = Max(0, Min(PageSizeOf(env), Cardinality(S) - start))
        /\ \A i \in 1..Len(rep.nodes) :
              /\ rep.nodes[i].nodeId \in S
              /\ Cardinality({ m \in S : Rank(m) < Rank(rep.nodes[i].nodeId) })
                    = start + i - 1
              /\ rep.nodes[i] = ListItem(ns[rep.nodes[i].nodeId])

\* C13: in every state reached by register, update and sync frames a node is
\* in the capability index under C exactly when its entry's capabilities[C] is
\* truthy; a list returns exactly the nodes that are truthy for every required
\* capability (the online ones when onlineOnly is set), as the requested page
\* of their ascending order by nodeId, and the same list repeated right after
\* gets the same answer.
C13_IndexAndList ==
    /\ \A cap \in Caps, n \in NodeIds :
          (cap \in DOMAIN cap_index /\ n \in cap_index[cap])
             <=> (n \in DOMAIN nodes /\ Truthy(nodes[n], cap))
    /\ \A env \in ListFrames :
          LET o == HandleList(env, now)
          IN  /\ IsPage(o.reply, Matching(o.nodes, env), o.nodes, env)
              /\ list_result(apply_ttl(o.nodes, TtlSeconds, now), o.cap_index, env)
                    = o.reply

\* two nodes, one registered offering echo and then changed by an update or a
\* sync to echo = false: a list has just returned the other, which offers
\* echo, alone
C13_Witness ==
    /\ last.type = "list"
    /\ reply.type = "list_result" /\ reply.total = 1
    /\ \E n \in DOMAIN nodes, m \in DOMAIN nodes :
          /\ reply.nodes = <<ListItem(nodes[m])>>
          /\ Truthy(nodes[m], "echo")
          /\ nodes[n].node_name = "n2"
          /\ "echo" \in DOMAIN nodes[n].capabilities /\ ~nodes[n].capabilities["echo"]
          /\ nodes[n].earned_points = 0
          /\ nodes[n].online

\* C14: a node is reported offline by the lists that come ttl seconds after
\* its last register or update, whatever reserve, commit, cancel, award or
\* report named it in the meantime: handling a ledger frame never changes the
\* online flag that the TTL pass of a list at a later time t gives any node.
C14_LedgerKeepsTtlClock ==
    \A ws \in open, env \in LedgerFrames, t \in Times, n \in DOMAIN nodes :
        LET o == _handle(env, ws, now)
        IN  apply_ttl(o.nodes, TtlSeconds, t)[n].online
               = apply_ttl(nodes, TtlSeconds, t)[n].online

\* a sync frame carrying the one item SyncItem(n, p, o, k)
SyncOf(n, p, o, k) ==
    [id |-> RequestId, type |-> "sync", nodes |-> <<SyncItem(n, p, o, k)>>, registryToken |-> RegistryToken]

\* C15: a sync served in the frame loop imports no counter of the peer: the
\* entries the registry has keep their counters, and an entry the sync creates
\* gets the same counters whatever counter values the payload carries.
C15_SyncImportsNoCounter ==
    open # {} =>
        \A n \in NodeIds, p \in DirPresentations, o \in BOOLEAN :
            LET s0 == HandleSync(SyncOf(n, p, o, 0), now)
                s1 == HandleSync(SyncOf(n, p, o, 1), now)
            IN  /\ s0.reply.type = "sync_ok" /\ s1.reply.type = "sync_ok"
                /\ \A m \in DOMAIN nodes :
                      /\ Counters(s0.nodes[m]) = Counters(nodes[m])
                      /\ Counters(s1.nodes[m]) = Counters(nodes[m])
                /\ Counters(s0.nodes[n]) = Counters(s1.nodes[n])

\* C16: for a known payer P, a known provider N and points p > 0 the award
\* (N, p, payer = P) succeeds exactly when reserve(P, N, p) does and leaves the
\* entries and the reservation table that the reserve followed by the commit
\* of its reservation leaves; an award without payer adds p to the provider's
\* balance and earnedPoints and 1 to its completedTasks and changes no other
\* entry; an award that fails (unknown provider, unknown payer, balance below
\* p) is answered with an error and changes neither entries nor reservations.
C16_AwardIsReserveCommit ==
    /\ \A pa \in DOMAIN nodes, pr \in DOMAIN nodes, k \in PointsIn :
          LET a == award(nodes, pr, k, pa, now)
              r == reserve(nodes, reservations, pa, pr, k, issued + 1, now)
              c == commit(r.nodes, r.reservations, r.rid, now)
              h == HandleAward(AwardFrame(pr, pa, k), now)
          IN  /\ a.ok <=> r.rid # NoRid
              /\ a.ok <=> h.reply.type = "award_ok"
              /\ a.ok => /\ c.ok
                         /\ h.nodes = c.nodes
                         /\ h.reservations = c.reservations
                         /\ c.reservations = reservations
    /\ \A pr \in DOMAIN nodes, k \in PointsIn :
          LET h == HandleAward(AwardFrame(pr, NoNode, k), now)
          IN  /\ h.reply.type = "award_ok"
              /\ h.reservations = reservations
              /\ h.nodes = [nodes EXCEPT ![pr].balance = @ + k,
                                         ![pr].earned_points = @ + k,
                                         ![pr].completed_tasks = @ + 1,
                                         ![pr].last_seen_ts = now]
    /\ \A pa \in ReqNodeIds, pr \in NodeIds, k \in PointsIn :
          LET h == HandleAward(AwardFrame(pr, pa, k), now)
          IN  h.reply.type # "award_ok" =>
                 /\ h.reply = Error(AwardFrame(pr, pa, k), "insufficient balance or node missing")
                 /\ h.nodes = nodes
                 /\ h.reservations = reservations
                 /\ \/ pr \notin DOMAIN nodes
                    \/ pa # NoNode /\ pa \notin DOMAIN nodes
                    \/ pa # NoNode /\ nodes[pa].balance < k

\* an award with a payer was served where no reservation was ever made: the
\* payer, an entry created by register, has spent a point that was never held
C16_Witness ==
    /\ last.type = "award" /\ reply.type = "award_ok"
    /\ issued = 0
    /\ \E pa \in DOMAIN nodes, pr \in DOMAIN nodes :
          /\ pa # pr
          /\ nodes[pa].spent_points = 1 /\ nodes[pa].earned_points = 0
          /\ nodes[pa].balance = InitialPoints - 1
          /\ awarded[pr] = 1 /\ nodes[pr].completed_tasks >= 1

(***************************************************************************)
(* Envelope ids, unknown types, malformed frames, the relay                *)
(***************************************************************************)
\* the frames of F under every id a client can put on them
WithIds(F) == { [e EXCEPT !.id = i] : e \in F, i \in ClientIds }

\* every envelope the registry sends for a parsed frame carries the frame's id
RegistryEchoesId ==
    \A ws \in Conns, env \in WithIds(Frames \cup SyncFrames) :
        Answer(env, ws).reply.id = env.id

\* every envelope the node service sends for a parsed frame carries its id
NodeEchoesId ==
    \A raw \in NodeFrames, allowed \in BOOLEAN, ran \in BOOLEAN :
        Node_handler(raw, allowed, ran).id = raw.id

\* the frames the relay can be given while uuid4 has internal ids left
Readable ==
    { raw \in RelayFrames : raw.type = "relay_request" => internal_ids < Len(InternalIds) }

\* the relay_response envelopes among sends
Responses(sends) == { s \in sends : s.env.type = "relay_response" }

\* every error / pong / relay_hello_ok the relay sends carries the frame's id,
\* and the relay_response for a pending request carries the id of the client's
\* request, not the internal id of the relay_result
RelayEchoesId ==
    /\ \A ws \in RelayConns, raw \in Readable :
          LET r == Relay_handler(raw, ws, _nodes, << >>, internal_ids, NodeIdOf(ws), mono)
          IN  \A s \in r.sends :
                 s.env.type \in {"error", "pong", "relay_hello_ok"} =>
                    s.to = ws /\ s.env.id = raw.id
    /\ \A ws \in RelayConns, rid \in DOMAIN _pending, p \in ResultPayloads :
          LET r == Relay_handler([id |-> rid, type |-> "relay_result", payload |-> p],
                                 ws, _nodes, _pending, internal_ids, NodeIdOf(ws),
                                 _pending[rid].created_ts)
          IN  \A s \in Responses(r.sends) :
                 /\ s.env.id = _pending[rid].client_id
                 /\ s.env.id # rid

\* C17: every reply the registry, the node service and the relay send for a
\* parsed request carries the id of that request, and a relay_response
\* carries the id of the client's relay_request, never the relay's internal id.
C17_RepliesCarryRequestId ==
    RegistryEchoesId /\ NodeEchoesId /\ RelayEchoesId

\* a well-formed frame of a type no server knows
UnknownFrames == { [id |-> i, type |-> "status"] : i \in ClientIds }

\* C18: the registry, the relay and the node service each answer a well-formed
\* frame of a type they do not recognise with an error envelope that carries
\* the frame's id, and keep the connection open.
C18_UnknownTypeGetsError ==
    \A env \in UnknownFrames :
        /\ \A ws \in Conns :
              LET h == IF ws \in open
                       THEN [stays |-> TRUE, out |-> frame_loop(env, ws, now)]
                       ELSE first_frame(env, ws, now)
              IN  /\ h.out.reply.type = "error" /\ h.out.reply.id = env.id
                  /\ h.stays
        /\ \A ws \in { w \in RelayConns : relay_conn[w] # "closed" } :
              LET r == Relay_handler(env, ws, _nodes, _pending, internal_ids,
                                     NodeIdOf(ws), mono)
              IN  \E s \in r.sends :
                     s.to = ws /\ s.env.type = "error" /\ s.env.id = env.id
        /\ \A allowed \in BOOLEAN, ran \in BOOLEAN :
              LET e == Node_handler(env, allowed, ran)
              IN  e.type = "error" /\ e.id = env.id

\* the registry part of C18 in its frame loop, and the node service part
UnknownTypeInLoop ==
    \A env \in UnknownFrames :
        /\ \A ws \in open :
              LET o == frame_loop(env, ws, now)
              IN  o.reply = Error(env, "unknown type")
        /\ \A allowed \in BOOLEAN, ran \in BOOLEAN :
              LET e == Node_handler(env, allowed, ran)
              IN  e.type = "error" /\ e.id = env.id

\* the frames the registry is to refuse: one that does not parse, and the
\* frames that carry a registry token that does not match
Refused ==
    {Garbled}
    \cup { e \in BadFrames \cup SyncFrames : e.registryToken = BadToken }
    \cup { [id |-> RequestId, type |-> "update", nodeId |-> "a", pres |-> p,
            registryToken |-> BadToken] : p \in Presentations }

\* C19: the registry answers a frame that does not parse, or that carries an
\* invalid registry token, with an error, changes nothing and keeps the
\* connection open, whether the frame is the first of its connection or a
\* later one.
C19_RefusedStaysOpen ==
    \A raw \in Refused, ws \in Conns :
        LET h == IF ws \in open
                 THEN [stays |-> TRUE, out |-> frame_loop(raw, ws, now)]
                 ELSE first_frame(raw, ws, now)
        IN  /\ h.out.reply.type = "error"
            /\ h.stays
            /\ h.out.nodes = nodes /\ h.out.reservations = reservations

\* C19 for the frames of the frame loop only
RefusedInLoop ==
    \A raw \in Refused, ws \in open :
        LET o == frame_loop(raw, ws, now)
        IN  /\ o.reply.type = "error"
            /\ o.reply.message \in {"bad json", "invalid registry token", "unknown type"}
            /\ o.reply.message = "unknown type" <=> raw.type = "register"
            /\ o.nodes = nodes /\ o.reservations = reservations

\* the relay_request frames for node T with a matching relay token
RequestsFor(T) ==
    { e \in RelayFrames :
        e.type = "relay_request" /\ e.nodeId = T /\ e.relayToken = RelayToken }

\* what C20 asks of the relay_request req that client connection C sends for
\* node T, registered on an open connection: the relay sends one relay_task, to
\* T's connection, under an id that is not req.id and not pending, with req's
\* kind, prompt, serviceToken and clientId; and the relay_result that T's
\* connection sends under that id, with any payload p, makes the relay send
\* one relay_response, to C, with id req.id and payload p
Forwards(C, T, req) ==
    LET r1 == Relay_handler(req, C, _nodes, _pending, internal_ids, NodeIdOf(C), mono)
        tasks == { s \in r1.sends : s.env.type = "relay_task" }
    IN  /\ Cardinality(tasks) = 1
        /\ \A s \in tasks :
              /\ s.to = _nodes[T]
              /\ s.env.id # req.id /\ s.env.id \notin DOMAIN _pending
              /\ s.env.payload.kind = req.kind
              /\ s.env.payload.prompt = req.prompt
              /\ s.env.payload.serviceToken = req.serviceToken
              /\ s.env.payload.clientId = req.clientId
              /\ \A p \in ResultPayloads :
                    LET r2 == Relay_handler(
                                 [id |-> s.env.id, type |-> "relay_result", payload |-> p],
                                 _nodes[T], r1.nodes, r1.pending, r1.ids,
                                 NodeIdOf(_nodes[T]), mono)
                    IN  Responses(r2.sends) \ Responses(r1.sends)
                           = { Send(C, [id |-> req.id, type |-> "relay_response",
                                        payload |-> p]) }

\* C20: for every relay_request with id r that a client connection C sends for
\* a registered node T, the relay sends T's connection one relay_task under a
\* fresh internal id, not r, carrying the request's kind, prompt, serviceToken
\* and clientId, and the relay_result with that internal id is answered with
\* one relay_response, sent to C only, with id r and the result's payload.
C20_RelayForwardsAndReturns ==
    internal_ids < Len(InternalIds) =>
        \A C \in { w \in RelayConns : relay_conn[w] # "closed" },
           T \in { n \in DOMAIN _nodes : relay_conn[_nodes[n]] = "open" } :
            \A req \in RequestsFor(T) : Forwards(C, T, req)

\* C20 for the requests whose id is not the empty string
ForwardsNamedRequests ==
    internal_ids < Len(InternalIds) =>
        \A C \in { w \in RelayConns : relay_conn[w] # "closed" },
           T \in { n \in DOMAIN _nodes : relay_conn[_nodes[n]] = "open" } :
            \A req \in { e \in RequestsFor(T) : e.id # NoId } : Forwards(C, T, req)

(***************************************************************************)
(* C21: a relay_request for a node that is not in the node map             *)
(***************************************************************************)
\* the relay_requests that pass the token check and name a node
NamedRequests ==
    { e \in RelayFrames : e.type = "relay_request" /\ Relay_check_token(e.relayToken)
                          /\ e.nodeId # NoNode }

\* C21: a relay_request whose target nodeId has no connection in the node map
\* is answered on the requesting connection with the error "node offline"
\* under the id of the request, and with nothing else: the pass of the loop
\* leaves the pending table as its sweep left it, draws no internal id and
\* sends no relay_task
C21_OfflineTargetRefused ==
    \A ws \in RelayConns, raw \in NamedRequests :
        (relay_conn[ws] # "closed" /\ raw.nodeId \notin DOMAIN _nodes) =>
            LET c == _cleanup_pending(_pending, mono)
                r == Relay_handler(raw, ws, _nodes, _pending, internal_ids, NodeIdOf(ws), mono)
            IN  /\ r.sends \ c.sends =
                      { Send(ws, [id |-> raw.id, type |-> "error", message |-> "node offline"]) }
                /\ \A s \in r.sends : s.env.type # "relay_task"
                /\ r.pending = c.pending
                /\ r.ids = internal_ids
                /\ r.nodes = _nodes

\* a request for a node that is not connected was refused while the pending
\* table holds the request of another client and the node map another node
C21_Witness ==
    /\ got.server = "relay"
    /\ got.raw \in NamedRequests
    /\ got.raw.nodeId \notin DOMAIN _nodes
    /\ _nodes # << >>
    /\ _pending # << >>
    /\ sent = { Send(got.ws, Error(got.raw, "node offline")) }
    /\ \A rid \in DOMAIN _pending : _pending[rid].client_ws # got.ws

(***************************************************************************)
(* C22: at most one relay_response for a forwarded request                 *)
(***************************************************************************)
\* the relay_responses sent so far for the internal id rid
Responded(rid) == answered[rid].result + answered[rid].timeout

\* C22: for every internal id the relay has sent at most one relay_response,
\* the node's result or the timeout of a sweep, whatever the interleaving of
\* the handlers at their sends; and a relay_result whose internal id is not
\* in the pending table (answered, swept or dropped with its client) sends
\* nothing and changes nothing
C22_AtMostOneResponse ==
    /\ \A rid \in InternalIdSet : Responded(rid) <= 1
    /\ \A ws \in RelayConns, raw \in PassFrames :
          (raw.type = "relay_result" /\ raw.id \notin DOMAIN _pending) =>
              LET r == Relay_branch(raw, ws, _nodes, _pending, internal_ids,
                                    NodeIdOf(ws), {}, mono)
              IN  r.sends = {} /\ r.pending = _pending /\ r.nodes = _nodes

\* a handler is suspended in its sweep with an entry on its expired list that
\* the handler of the node's connection has answered with the result meanwhile
C22_Witness ==
    \E ws \in RelayConns, rid \in InternalIdSet :
        /\ relay_pc[ws].pc = "sweep"
        /\ rid \in relay_pc[ws].todo
        /\ rid \notin DOMAIN _pending
        /\ answered[rid].result = 1

\* a handler is suspended in its sweep with an entry on its expired list that
\* the sweep of another handler has answered with the timeout meanwhile
C22_SweptByAnother ==
    \E ws \in RelayConns, rid \in InternalIdSet :
        /\ relay_pc[ws].pc = "sweep"
        /\ rid \in relay_pc[ws].todo
        /\ rid \notin DOMAIN _pending
        /\ answered[rid].timeout = 1

(***************************************************************************)
(* C23: a forwarded request is answered in the end                         *)
(***************************************************************************)
\* the relay with a clock that keeps advancing and handlers that resume from
\* their sends; when frames arrive is left to the peers
SpecPassFair ==
    /\ SpecPass
    /\ WF_allVars(RelayClock)
    /\ \A ws \in RelayConns : WF_allVars(RelayResume(ws))

\* the same relay when, in addition, the clients keep sending pings
SpecPassFramed ==
    /\ SpecPassFair
    /\ \A ws \in RelayConns : \A raw \in PassFramesOf(ws) :
          raw.type = "ping" => WF_allVars(RelayRecv(ws, raw))

\* the pending entry rid is there and the clock will pass its ttl
Forwarded(rid) ==
    /\ rid \in DOMAIN _pending
    /\ _pending[rid].created_ts + PendingTtl < MaxMono

\* the relay has sent a relay_response for rid, or the client of rid has
\* closed its connection and the entry went with it
Closed(rid) == Responded(rid) = 1 \/ rid \notin DOMAIN _pending

\* C23: every request forwarded to a node is followed by a relay_response to
\* its client while the client's connection stays open, the node's result or
\* the timeout, also when no further frame arrives at the relay
C23_ForwardedIsAnswered ==
    \A rid \in InternalIdSet : Forwarded(rid) ~> Closed(rid)

(***************************************************************************)
(* C24: what the exit of a handler leaves in the relay's tables            *)
(***************************************************************************)
\* the node map has no nodeId for connection ws
Unmapped(ws) == \A n \in DOMAIN _nodes : _nodes[n] # ws

\* the pending table has no entry of client ws
NoRequestOf(ws) == \A rid \in DOMAIN _pending : _pending[rid].client_ws # ws

\* C24: once the handler of a connection has exited, no nodeId of the node
\* map maps to the connection, whatever relay_hello frames it sent, and no
\* pending entry has it as its client
C24_ExitLeavesNoTrace ==
    \A ws \in RelayConns :
        relay_conn[ws] = "closed" => Unmapped(ws) /\ NoRequestOf(ws)

\* the part of C24 about the pending table
ExitDropsRequests ==
    \A ws \in RelayConns : relay_conn[ws] = "closed" => NoRequestOf(ws)

\* the exit of a handler removes no pending entry of another client: the
\* requests in flight to a node whose connection closes wait for the sweep
ExitKeepsOthers ==
    [][ \A ws \in RelayConns :
          RelayExit(ws) =>
              \A rid \in DOMAIN _pending :
                  _pending[rid].client_ws # ws =>
                      rid \in DOMAIN _pending' /\ _pending'[rid] = _pending[rid] ]_allVars

(***************************************************************************)
(* C25: the node service answers every admitted task_run once              *)
(***************************************************************************)
\* the task_run frames
TaskRuns == { e \in NodeFrames : e.type = "task_run" }

\* the service tokens a node service is configured with: none, or one
ServiceTokens == {"", ServiceToken}

\* what the claim says the pass o of the node service does with the admitted
\* task_run raw when token is configured and the model or agent returns (ran)
\* or raises
AnswersTaskRun(o, token, raw, ran) ==
    /\ o.reply.id = raw.id
    /\ o.goes_on
    /\ IF token # "" /\ raw.serviceToken # token
       THEN o.reply.type = "error" /\ o.reply.message = "invalid service token"
            /\ ~o.executed
       ELSE IF raw.kind \notin {"echo", "llm.chat", "zerobot.agent"}
       THEN o.reply.type = "error" /\ o.reply.message = "unsupported kind" /\ ~o.executed
       ELSE IF raw.prompt = ""
       THEN o.reply.type = "error" /\ o.reply.message = "missing prompt" /\ ~o.executed
       ELSE /\ o.executed
            /\ IF raw.kind = "echo"
               THEN o.reply = [id |-> raw.id, type |-> "task_result", content |-> raw.prompt]
               ELSE IF ran
               THEN o.reply.type = "task_result" /\ o.reply.content = "out"
               ELSE o.reply.type = "task_error"

\* C25: for every task_run the rate limiters admit, the node service sends
\* exactly one reply under the id of the request: an error when a service
\* token is configured and the frame's differs, else an error when the kind
\* is not allowed, else an error when the prompt is empty, else task_result
\* with the executor's content (the prompt itself for echo) or task_error
\* when the executor raises; the executor runs only in the last case, and the
\* loop goes on to the next frame in every case
C25_TaskRunAnswered ==
    /\ \A token \in ServiceTokens, raw \in TaskRuns, ran \in BOOLEAN :
          AnswersTaskRun(Node_pass(token, raw, TRUE, ran), token, raw, ran)
    /\ (got.server = "node" /\ got.raw \in TaskRuns /\ got.allowed) =>
          /\ Cardinality(sent) = 1
          /\ \A s \in sent :
                /\ s.to = got.ws
                /\ s.env.id = got.raw.id
                /\ s.env.type \in {"error", "task_result", "task_error"}
                /\ got.executed <=> s.env.type \in {"task_result", "task_error"}
                /\ \E ran \in BOOLEAN :
                      s.env = Node_pass(ServiceToken, got.raw, TRUE, ran).reply

\* an echo task was run and answered with its prompt, under the empty id of
\* the request
C25_Witness ==
    /\ got.server = "node"
    /\ got.raw \in TaskRuns
    /\ got.allowed /\ got.executed
    /\ got.raw.kind = "echo"
    /\ got.raw.id = NoId
    /\ sent = { Send(got.ws, [id |-> NoId, type |-> "task_result",
                              content |-> got.raw.prompt]) }

\* a task whose model raised was answered with task_error
C25_Raised ==
    /\ got.server = "node"
    /\ got.raw \in TaskRuns
    /\ got.executed
    /\ \E s \in sent : s.env.type = "task_error"

(***************************************************************************)
(* C26: the token bucket                                                   *)
(***************************************************************************)
RECURSIVE SumAges(_, _)
\* the requests of key admitted in the last n + 1 ticks
SumAges(key, n) ==
    IF n < 0 THEN 0 ELSE admits[key][n] + SumAges(key, n - 1)

\* the requests of key admitted in the minute that ends now
InLastMinute(key) == SumAges(key, Minute)

\* the registry's tables and connections
RegistryTables == <<nodes, cap_index, reservations, ws_to_node, open, issued, settled, awarded>>

\* the limiter denies a request of key now
Denies(key) == ~RateLimiter_allow(_buckets, _last_cleanup, key, monotonic).ok

\* C26: with rate R per minute and burst B, the minute that ends at any
\* moment has admitted at most R + B requests of a key, also when the key's
\* idle bucket was evicted and created again; the tokens of every bucket stay
\* within 0 .. capacity; and a frame the limiter denies is answered with the
\* error "rate limited" under the frame's id and changes nothing in the
\* registry
C26_TokenBucket ==
    /\ [](\A key \in Keys : InLastMinute(key) <= Max(1, LimitRate) + LimitBurst)
    /\ [](\A key \in DOMAIN _buckets :
             _buckets[key].tokens >= 0 /\ _buckets[key].tokens <= Capacity)
    /\ [][ /\ \A ws \in Conns, env \in LimitFrames :
                (LimitedFrame(ws, env) /\ Denies(peer[ws])) =>
                    /\ reply' = [id |-> env.id, type |-> "error", message |-> "rate limited"]
                    /\ UNCHANGED RegistryTables
           /\ \A env \in LimitFrames, key \in Keys :
                (LimitedFirst(env, key) /\ Denies(key)) =>
                    /\ reply' = [id |-> env.id, type |-> "error", message |-> "rate limited"]
                    /\ UNCHANGED RegistryTables ]_allVars

\* after the limiter's cleanup has run, a frame was denied in a minute that
\* had admitted rate + burst requests of its key
C26_Witness ==
    /\ reply.type = "error" /\ reply.message = "rate limited"
    /\ _last_cleanup >= IdleTtl
    /\ \E key \in Keys : InLastMinute(key) = Max(1, LimitRate) + LimitBurst

(***************************************************************************)
(* The public client: delegate_task                                        *)
(***************************************************************************)
\* the arguments of delegate_task that steer it: kind is "echo", to_node_id
\* and max_price_points are not given
DelegateArgs ==
    [ registry_token : {"", RegistryToken},
      client_id : {"", "a"},
      relay_url : {"", "ws://relay"},
      relay_only : BOOLEAN,
      preauth_enabled : BOOLEAN,
      preauth_required : BOOLEAN ]

\* the connection a client helper opens for its one frame
ClientConn == "cl"

\* the registry at registry_url answers a client helper's frame, the first of
\* its connection: through the first-frame gate of this repository's server
\* (gated), or served as the frame loop serves it
registry_reply(env, gated) ==
    IF gated THEN first_frame(env, ClientConn, now).out ELSE _handle(env, ClientConn, now)

\* _score_node as a fraction num / den: success_rate * 100 - avg_latency / 100 - price * 2
\* over the common denominator 100 * (total + 2)
_score_den(n) == 100 * (n.successCount + n.failCount + 2)
_score_num(n) ==
    LET avg_latency == IF n.avgLatencyMs = 0 THEN 1000 ELSE n.avgLatencyMs
        price == Max(1, IF n.pricePoints = 0 THEN 1 ELSE n.pricePoints)
    IN  (n.successCount + 1) * 10000
          - avg_latency * (n.successCount + n.failCount + 2)
          - price * 200 * (n.successCount + n.failCount + 2)

\* pick_node: the candidates whose score is within 0.5 of the best score
pick_node(listed) ==
    { i \in DOMAIN listed :
        \A j \in DOMAIN listed :
            2 * _score_num(listed[i]) * _score_den(listed[j])
              >= 2 * _score_num(listed[j]) * _score_den(listed[i])
                   - _score_den(listed[i]) * _score_den(listed[j]) }

\* the call made last is appended to the trace of the delegation
Called(d, call, ok) == [d EXCEPT !.calls = Append(@, [call |-> call, ok |-> ok])]

\* return node, out
Return(d) == [d EXCEPT !.pc = "done", !.result = "returned", !.value = d.out]
\* an exception leaves delegate_task
Raise(d, e) == [d EXCEPT !.pc = "done", !.result = "raised", !.value = e]

\* endpoint = node.endpoint_url or await resolve_endpoint(..): the listing
\* carries no endpointUrl, and resolve_endpoint needs a registry token
ToResolve(d) ==
    IF d.cfg.registry_token = "" THEN Raise(d, "registry_token required for resolve")
    ELSE [d EXCEPT !.pc = "resolve"]

\* after the relay branch
AfterRelay(d) ==
    IF d.cfg.relay_only
    THEN Raise(d, "relay_only enabled but relay_url is not configured")
    ELSE ToResolve(d)

\* the end of an except block: the relay branch re-raises only if relay_only
AfterCancel(d) ==
    IF d.branch = "relay" /\ ~d.cfg.relay_only THEN AfterRelay(d) ELSE Raise(d, d.err)

\* the except block after its report
AfterReportFail(d) ==
    IF d.reservation_id # NoRid THEN [d EXCEPT !.pc = "cancel"] ELSE AfterCancel(d)

\* except Exception: entered with the exception e of the task call or the commit
Except(d, e) ==
    LET x == [d EXCEPT !.err = e, !.failed = TRUE]
    IN  IF x.cfg.registry_token # "" THEN [x EXCEPT !.pc = "report"] ELSE AfterReportFail(x)

\* the try block after its commit
AfterCommit(d) ==
    IF d.cfg.registry_token # "" THEN [d EXCEPT !.pc = "report"] ELSE Return(d)

\* the try block after its task call returned
AfterTask(d) ==
    IF d.reservation_id # NoRid THEN [d EXCEPT !.pc = "commit"] ELSE AfterCommit(d)

\* if relay_url: .. the relay branch, else what follows it
AfterPreauth(d) ==
    IF d.cfg.relay_url # "" THEN [d EXCEPT !.pc = "relay", !.branch = "relay"]
    ELSE AfterRelay(d)

\* if preauth_enabled: ..
Preauth(d) ==
    IF d.cfg.preauth_enabled
    THEN IF d.cfg.registry_token = "" \/ d.cfg.client_id = ""
         THEN IF d.cfg.preauth_required
              THEN Raise(d, "preauth requires registry_token and client_id")
              ELSE AfterPreauth(d)
         ELSE [d EXCEPT !.pc = "reserve"]
    ELSE AfterPreauth(d)

\* the locals of delegate_task once it has picked node n of the listing
Picked(cfg, gated, n) ==
    [ pc |-> "picked", cfg |-> cfg, gated |-> gated, node |-> n.nodeId,
      price |-> IF n.pricePoints = 0 THEN 1 ELSE n.pricePoints,
      branch |-> "none", reservation_id |-> NoRid, out |-> "", task |-> "none",
      err |-> "", failed |-> FALSE, calls |-> << >>, result |-> "none", value |-> "" ]

\* a helper's exchange with the registry leaves the registry's own bookkeeping
\* of connections and time alone
RegistryExchange(env, o) ==
    /\ Apply(o)
    /\ last' = Handled(env)
    /\ UNCHANGED <<open, now, steps, pend, acked>>
    /\ UNCHANGED relayVars
    /\ UNCHANGED limitVars
    /\ UNCHANGED storeVars

\* delegate_task(..): list_public_nodes, pick_node and the preauth decision
DelegateTask(cfg, gated) ==
    /\ deleg.pc = "idle"
    /\ LET env == [id |-> DrawnId, type |-> "list", onlineOnly |-> TRUE,
                   requireCapabilities |-> {"echo"}, page |-> 0, pageSize |-> 0]
           o == registry_reply(env, TRUE)
           listed == o.reply.nodes
       IN  /\ RegistryExchange(env, o)
           /\ \E i \in pick_node(listed) \cup {0} :
                /\ i = 0 <=> listed = << >>
                /\ deleg' = IF i = 0
                            THEN [pc |-> "done", cfg |-> cfg, gated |-> gated,
                                  node |-> NoNode, price |-> 0,
                                  branch |-> "none", reservation_id |-> NoRid, out |-> "",
                                  task |-> "none", err |-> "", failed |-> FALSE,
                                  calls |-> << >>, result |-> "raised",
                                  value |-> "no eligible nodes found"]
                            ELSE Preauth(Picked(cfg, gated, listed[i]))

\* reserve_points
DelegReserve ==
    /\ deleg.pc = "reserve"
    /\ issued < MaxRids
    /\ LET env == [id |-> DrawnId, type |-> "reserve", nodeId |-> deleg.node,
                   payerNode |-> deleg.cfg.client_id, points |-> deleg.price,
                   registryToken |-> deleg.cfg.registry_token]
           o == registry_reply(env, deleg.gated)
           ok == o.reply.type = "reserve_ok"
           d == Called(deleg, "reserve", ok)
       IN  /\ RegistryExchange(env, o)
           /\ deleg' = IF ok
                       THEN AfterPreauth([d EXCEPT !.reservation_id = o.reply.reservationId])
                       ELSE Raise(d, "reserve")

\* call_via_relay: it returns the node's output or raises
DelegRelay(ok) ==
    /\ deleg.pc = "relay"
    /\ LET d == Called(deleg, "relay", ok)
       IN  deleg' = IF ok THEN AfterTask([d EXCEPT !.out = "relay-out", !.task = "ok"])
                   ELSE Except([d EXCEPT !.task = "failed"], "task")
    /\ UNCHANGED vars
    /\ UNCHANGED relayVars
    /\ UNCHANGED limitVars
    /\ UNCHANGED storeVars

\* commit_reservation, inside the try block
DelegCommit ==
    /\ deleg.pc = "commit"
    /\ LET env == [id |-> DrawnId, type |-> "commit", reservationId |-> deleg.reservation_id,
                   registryToken |-> deleg.cfg.registry_token]
           o == registry_reply(env, deleg.gated)
           ok == o.reply.type = "commit_ok"
           d == Called(deleg, "commit", ok)
       IN  /\ RegistryExchange(env, o)
           /\ deleg' = IF ok THEN AfterCommit(d) ELSE Except(d, "commit")

\* report_task, in its own try / except: pass
DelegReport ==
    /\ deleg.pc = "report"
    /\ LET env == [id |-> DrawnId, type |-> "report", nodeId |-> deleg.node,
                   ok |-> ~deleg.failed, latencyMs |-> 1,
                   registryToken |-> deleg.cfg.registry_token]
           o == registry_reply(env, deleg.gated)
           d == Called(deleg, "report", o.reply.type = "report_ok")
       IN  /\ RegistryExchange(env, o)
           /\ deleg' = IF d.failed THEN AfterReportFail(d) ELSE Return(d)

\* cancel_reservation, in its own try / except: pass
DelegCancel ==
    /\ deleg.pc = "cancel"
    /\ LET env == [id |-> DrawnId, type |-> "cancel", reservationId |-> deleg.reservation_id,
                   registryToken |-> deleg.cfg.registry_token]
           o == registry_reply(env, deleg.gated)
           d == Called(deleg, "cancel", o.reply.type = "cancel_ok")
       IN  /\ RegistryExchange(env, o)
           /\ deleg' = AfterCancel(d)

\* resolve_endpoint, outside the try blocks
DelegResolve ==
    /\ deleg.pc = "resolve"
    /\ LET env == [id |-> DrawnId, type |-> "resolve", nodeId |-> deleg.node,
                   registryToken |-> deleg.cfg.registry_token]
           o == registry_reply(env, deleg.gated)
           ok == o.reply.type = "resolve_ok" /\ o.reply.endpointUrl # ""
           d == Called(deleg, "resolve", ok)
       IN  /\ RegistryExchange(env, o)
           /\ deleg' = IF ok THEN [d EXCEPT !.pc = "direct", !.branch = "direct",
                                            !.failed = FALSE, !.err = ""]
                       ELSE Raise(d, "resolve")

\* call_node: it returns the node's output or raises
DelegDirect(ok) ==
    /\ deleg.pc = "direct"
    /\ LET d == Called(deleg, "direct", ok)
       IN  deleg' = IF ok THEN AfterTask([d EXCEPT !.out = "direct-out", !.task = "ok"])
                   ELSE Except([d EXCEPT !.task = "failed"], "task")
    /\ UNCHANGED vars
    /\ UNCHANGED relayVars
    /\ UNCHANGED limitVars
    /\ UNCHANGED storeVars

\* the nodes register, and a registered node withdraws its endpoint with an
\* update
ClientRegisters == { env \in RegisterFrames : env.type = "register" }
ClientUpdates == { env \in RegisterFrames : env.type = "update" /\ env.pres.endpointUrl = "" }

NextClient ==
    \/ \E env \in ClientRegisters : FirstFrame(env)
    \/ \E ws \in Conns, env \in ClientUpdates : Frame(ws, env)
    \/ \E t \in Times : Tick(t)
    \/ \E t \in Times : PreauthSweep(t)
    \/ \E cfg \in DelegateArgs, gated \in BOOLEAN : DelegateTask(cfg, gated)
    \/ DelegReserve
    \/ \E ok \in BOOLEAN : DelegRelay(ok)
    \/ DelegCommit
    \/ DelegReport
    \/ DelegCancel
    \/ DelegResolve
    \/ \E ok \in BOOLEAN : DelegDirect(ok)

SpecClient == Init /\ [][NextClient]_allVars

(***************************************************************************)
(* delegate_task: preauth, reconciliation and the relay fallback           *)
(***************************************************************************)
\* delegate_task has ended
Ended == deleg.pc = "done"

\* the delegation made the call, with the outcome ok
Made(call, ok) == \E i \in DOMAIN deleg.calls : deleg.calls[i] = [call |-> call, ok |-> ok]
\* the delegation made the call
Tried(call) == \E i \in DOMAIN deleg.calls : deleg.calls[i].call = call

\* the reserve of the delegation was refused
ReserveFailed ==
    /\ Ended
    /\ deleg.cfg.preauth_enabled
    /\ deleg.cfg.registry_token # "" /\ deleg.cfg.client_id # ""
    /\ Made("reserve", FALSE)

\* C27: with preauth enabled, registry token and client id present, a failed
\* reserve aborts the delegation only if preauthRequired; otherwise the
\* delegation goes on without a reservation and performs the task call (where
\* its configuration has one to perform: a relay URL, or no relayOnly).
C27_ReserveFailureContinues ==
    ReserveFailed =>
        IF deleg.cfg.preauth_required
        THEN deleg.result = "raised" /\ ~Tried("relay") /\ ~Tried("direct")
        ELSE /\ deleg.reservation_id = NoRid
             /\ deleg.cfg.relay_url # "" => Tried("relay")
             /\ deleg.value # "reserve"

\* a failed reserve ends the delegation with the reserve's error, whatever
\* preauthRequired says
ReserveFailureRaises ==
    ReserveFailed =>
        /\ deleg.result = "raised" /\ deleg.value = "reserve"
        /\ deleg.calls = <<[call |-> "reserve", ok |-> FALSE]>>

\* a reserve refused for an unknown payer with preauthRequired false
ReserveRefusedNotRequired ==
    /\ ReserveFailed
    /\ ~deleg.cfg.preauth_required
    /\ reply.type = "error" /\ reply.message = "insufficient balance or node missing"

\* the delegation obtained a reservation and ended in failure
FailedReserved == Ended /\ deleg.reservation_id # NoRid /\ deleg.result = "raised"

\* C28: a delegation that obtained a reservation and ends in failure has sent
\* a cancel for it, and no delegation ends with its reservation neither
\* committed nor cancelled by an attempt of its own.
C28_FailureCancels ==
    /\ FailedReserved => Tried("cancel")
    /\ (Ended /\ deleg.reservation_id # NoRid) => (Tried("commit") \/ Tried("cancel"))

\* a failure inside one of the two try blocks (the task call or the commit
\* raised) is followed by a cancel
TryFailureCancels ==
    (FailedReserved /\ deleg.value \in {"task", "commit"}) => Tried("cancel")

\* a delegation ended by relayOnly without a relay URL, its reservation still
\* held by the registry
ReservationAbandoned ==
    /\ FailedReserved
    /\ deleg.value = "relay_only enabled but relay_url is not configured"
    /\ deleg.calls = <<[call |-> "reserve", ok |-> TRUE]>>
    /\ deleg.reservation_id \in DOMAIN reservations

\* a delegation ended by a failed resolve, its reservation still held
ResolveFailureAbandons ==
    /\ FailedReserved
    /\ deleg.value = "resolve"
    /\ ~Tried("cancel")
    /\ deleg.reservation_id \in DOMAIN reservations

\* C29: reconciliation never changes the outcome of the delegation: when its
\* task call returned a result the delegation returns that result, whatever
\* the commit and the report answer; when its task call failed the delegation
\* raises the task's error, whatever the report and the cancel answer (a
\* failed relay call without relayOnly goes on to the direct path instead).
C29_OutcomeNotMasked ==
    Ended =>
        /\ deleg.task = "ok" => (deleg.result = "returned" /\ deleg.value = deleg.out)
        /\ deleg.task = "failed" =>
              /\ deleg.result = "raised"
              /\ deleg.value = "task" \/ (deleg.branch = "relay" /\ ~deleg.cfg.relay_only)

\* the report and the cancel are best-effort: with no failed commit the
\* result of the task call is returned, and the error of a failed task call
\* is the one raised
ReportAndCancelSwallowed ==
    Ended =>
        /\ (deleg.task = "ok" /\ ~Made("commit", FALSE)) =>
              (deleg.result = "returned" /\ deleg.value = deleg.out)
        /\ deleg.task = "failed" =>
              /\ deleg.result = "raised"
              /\ deleg.value = "task" \/ (deleg.branch = "relay" /\ ~deleg.cfg.relay_only)

\* the direct call returned a result, the reservation had expired, and the
\* delegation raised the commit's error
CommitFailureMasksResult ==
    /\ Ended
    /\ deleg.task = "ok" /\ deleg.out = "direct-out"
    /\ deleg.result = "raised" /\ deleg.value = "commit"
    /\ deleg.reservation_id \in DOMAIN settled
    /\ settled[deleg.reservation_id].how = "expire"

\* a failed report after a returned task call
ReportFailureSwallowed ==
    /\ Ended
    /\ Made("report", FALSE)
    /\ deleg.task = "ok" /\ deleg.result = "returned" /\ deleg.value = deleg.out

\* a failed cancel after a failed task call
CancelFailureSwallowed ==
    /\ Ended
    /\ Made("cancel", FALSE)
    /\ deleg.task = "failed" /\ deleg.result = "raised" /\ deleg.value = "task"

\* a delegation with a relay URL, without relayOnly and with a reservation,
\* whose relay call failed
RelayFellBack ==
    /\ Ended
    /\ deleg.cfg.relay_url # "" /\ ~deleg.cfg.relay_only
    /\ deleg.reservation_id # NoRid
    /\ Made("relay", FALSE)

\* the reservation of the delegation was committed: payer charged, provider
\* credited with the price
Committed ==
    /\ deleg.reservation_id \in DOMAIN settled
    /\ settled[deleg.reservation_id].how = "commit"
    /\ settled[deleg.reservation_id].points = deleg.price

\* C30: with a relay URL, relayOnly false and a reservation made, a failed
\* relay call is followed by the resolve of the endpoint and the direct call,
\* and a direct call that succeeds makes the delegation return its result with
\* the reservation committed.
C30_RelayFallbackCommits ==
    RelayFellBack =>
        /\ Tried("resolve")
        /\ Made("resolve", TRUE) => Tried("direct")
        /\ Made("direct", TRUE) =>
              /\ deleg.result = "returned" /\ deleg.value = "direct-out"
              /\ Committed

\* the fallback is taken: the resolve follows the failed relay call and the
\* direct call follows the resolve
RelayFallbackTaken ==
    RelayFellBack =>
        /\ Tried("resolve")
        /\ Made("resolve", TRUE) => Tried("direct")

\* the except block of the relay branch has given the reservation up before
\* the direct call: the commit after a direct call that succeeds fails
RelayFallbackNeverCommits ==
    (RelayFellBack /\ Made("direct", TRUE)) =>
        /\ deleg.result = "raised" /\ deleg.value = "commit"
        /\ ~Committed

\* the direct call succeeded after the reservation was cancelled: nobody is
\* charged or credited and the delegation raises
FallbackAfterCancel ==
    /\ RelayFellBack
    /\ Made("cancel", TRUE) /\ Made("direct", TRUE) /\ Made("commit", FALSE)
    /\ settled[deleg.reservation_id].how = "cancel"
    /\ nodes[deleg.cfg.client_id].spent_points = 0
    /\ nodes[deleg.node].earned_points = 0
    /\ deleg.result = "raised"

\* the positions of the delegation's trace at which it made the call
CallsOf(call) == { i \in DOMAIN deleg.calls : deleg.calls[i].call = call }
\* the positions at which it submitted the task to the provider
TaskCalls == CallsOf("relay") \cup CallsOf("direct")

\* C31: a delegation sends at most one reserve, and once a task call has
\* returned a result it submits the task to the provider no second time.
C31_NoRetry ==
    deleg.pc # "idle" =>
        /\ Cardinality(CallsOf("reserve")) <= 1
        /\ \A i \in TaskCalls : \A j \in TaskCalls :
              (i < j) => ~deleg.calls[i].ok

\* the reserve is sent at most once and each of the two task calls at most once
OneReserveOneCallEach ==
    deleg.pc # "idle" =>
        /\ Cardinality(CallsOf("reserve")) <= 1
        /\ Cardinality(CallsOf("relay")) <= 1
        /\ Cardinality(CallsOf("direct")) <= 1

\* the task ran over the relay, the commit failed, and the task was submitted
\* again over the direct path
TaskSubmittedTwice ==
    /\ Ended
    /\ Made("relay", TRUE) /\ Made("commit", FALSE) /\ Tried("direct")
    /\ ~deleg.cfg.relay_only

(***************************************************************************)
(* The registry's knowledge packs                                          *)
(***************************************************************************)
\* cfg.knowledge_max_bytes as configured for the model (the default is 50000)
KnowledgeMaxBytes == 2

\* the contents a publish carries, with len(content.encode("utf-8")) and the
\* hex digest of hashlib.sha256 of each
Contents == {"", "x", "yy", "zzz"}
size_bytes(content) ==
    IF content = "" THEN 0 ELSE IF content = "x" THEN 1 ELSE IF content = "yy" THEN 2 ELSE 3
sha256(content) ==
    IF content = "" THEN "e3b0" ELSE IF content = "x" THEN "2d71"
    ELSE IF content = "yy" THEN "5a0e" ELSE "17f1"

\* the pack id a client names, and the ids uuid4 draws when it names none
NamedPack == "p1"
DrawnPacks == <<"g1", "g2">>
FreeDrawn(packs) == { i \in DOMAIN DrawnPacks : DrawnPacks[i] \notin DOMAIN packs }

\* knowledge_publish and knowledge_get envelopes: the well-formed ones, and one
\* for each way of being refused before the store is read
Publish(p, o, c, u, tok) ==
    [id |-> RequestId, type |-> "knowledge_publish", packId |-> p, ownerNode |-> o,
     name |-> "n", kind |-> "k", content |-> c, allowUpdate |-> u, registryToken |-> tok]
PublishFrames ==
    { Publish(p, o, c, u, RegistryToken) :
         p \in {NamedPack, ""}, o \in NodeIds, c \in {"x", "yy"}, u \in BOOLEAN }
    \cup { Publish(NamedPack, "a", "x", TRUE, BadToken), Publish(NamedPack, "a", "", TRUE, RegistryToken),
           Publish(NamedPack, NoNode, "x", TRUE, RegistryToken),
           Publish(NamedPack, "a", "zzz", TRUE, RegistryToken) }
GetFrames ==
    { [id |-> RequestId, type |-> "knowledge_get", packId |-> p, registryToken |-> RegistryToken] :
         p \in {NamedPack, DrawnPacks[1], ""} }
    \cup { [id |-> RequestId, type |-> "knowledge_get", packId |-> NamedPack,
            registryToken |-> BadToken] }
KnowledgeFrames == PublishFrames \cup GetFrames

\* KnowledgePack.to_dict(include_content=True)
pack_to_dict(p) ==
    [ id |-> p.pack_id, name |-> p.name, kind |-> p.kind, ownerNode |-> p.owner_node,
      createdTs |-> p.created_ts, updatedTs |-> p.updated_ts,
      contentHash |-> p.content_hash, sizeBytes |-> p.size_bytes, content |-> p.content ]

\* KnowledgePack.from_dict
pack_from_dict(d) ==
    [ pack_id |-> d.id, name |-> d.name, kind |-> d.kind, content |-> d.content,
      owner_node |-> d.ownerNode, created_ts |-> d.createdTs, updated_ts |-> d.updatedTs,
      content_hash |-> d.contentHash, size_bytes |-> d.sizeBytes ]

\* the pack a publish stores, keeps_created being whether created_ts is taken
\* from the existing pack
NewPack(packs, pack_id, env, t, keeps_created) ==
    [ pack_id |-> pack_id, name |-> env.name, kind |-> env.kind, content |-> env.content,
      owner_node |-> env.ownerNode,
      created_ts |-> IF pack_id \in DOMAIN packs /\ keeps_created
                     THEN packs[pack_id].created_ts ELSE t,
      updated_ts |-> t,
      content_hash |-> sha256(env.content),
      size_bytes |-> size_bytes(env.content) ]

\* RegistryState.upsert_knowledge
upsert_knowledge(packs, pack) ==
    [ p \in DOMAIN packs \cup {pack.pack_id} |->
        IF p = pack.pack_id THEN pack ELSE packs[p] ]

\* _handle, knowledge_publish, without the owner check
knowledge_publish_anyOwner(packs, env, t) ==
    IF ~_check_token(env.registryToken)
    THEN [packs |-> packs, reply |-> Error(env, "invalid registry token")]
    ELSE IF env.name = "" \/ env.kind = "" \/ env.content = ""
    THEN [packs |-> packs, reply |-> Error(env, "missing name/kind/content")]
    ELSE IF env.ownerNode = NoNode
    THEN [packs |-> packs, reply |-> Error(env, "missing ownerNode")]
    ELSE IF KnowledgeMaxBytes > 0 /\ size_bytes(env.content) > KnowledgeMaxBytes
    THEN [packs |-> packs, reply |-> Error(env, "content too large")]
    ELSE LET pack_id == IF env.packId = ""
                        THEN DrawnPacks[CHOOSE i \in FreeDrawn(packs) :
                                           \A j \in FreeDrawn(packs) : i <= j]
                        ELSE env.packId
             existing == pack_id \in DOMAIN packs
         IN  IF existing /\ ~env.allowUpdate
             THEN [packs |-> packs, reply |-> Error(env, "pack exists (set allowUpdate)")]
             ELSE LET pack == NewPack(packs, pack_id, env, t, TRUE)
                  IN  [packs |-> upsert_knowledge(packs, pack),
                       reply |-> [id |-> env.id, type |-> "knowledge_publish_ok",
                                  packId |-> pack_id, sizeBytes |-> pack.size_bytes,
                                  contentHash |-> pack.content_hash, updatedTs |-> t]]

\* _handle, knowledge_publish: from the token check to the envelope it sends;
\* get_knowledge and upsert_knowledge take a lock nobody holds across an
\* await, so nothing runs between the check and the write
knowledge_publish(packs, env, t) ==
    IF ~_check_token(env.registryToken)
    THEN [packs |-> packs, reply |-> Error(env, "invalid registry token")]
    ELSE IF env.name = "" \/ env.kind = "" \/ env.content = ""
    THEN [packs |-> packs, reply |-> Error(env, "missing name/kind/content")]
    ELSE IF env.ownerNode = NoNode
    THEN [packs |-> packs, reply |-> Error(env, "missing ownerNode")]
    ELSE IF KnowledgeMaxBytes > 0 /\ size_bytes(env.content) > KnowledgeMaxBytes
    THEN [packs |-> packs, reply |-> Error(env, "content too large")]
    ELSE LET pack_id == IF env.packId = ""
                        THEN DrawnPacks[CHOOSE i \in FreeDrawn(packs) :
                                           \A j \in FreeDrawn(packs) : i <= j]
                        ELSE env.packId
             existing == pack_id \in DOMAIN packs
         IN  IF existing /\ packs[pack_id].owner_node # env.ownerNode
             THEN [packs |-> packs, reply |-> Error(env, "owner mismatch")]
             ELSE IF existing /\ ~env.allowUpdate
             THEN [packs |-> packs, reply |-> Error(env, "pack exists (set allowUpdate)")]
             ELSE LET pack == NewPack(packs, pack_id, env, t, TRUE)
                  IN  [packs |-> upsert_knowledge(packs, pack),
                       reply |-> [id |-> env.id, type |-> "knowledge_publish_ok",
                                  packId |-> pack_id, sizeBytes |-> pack.size_bytes,
                                  contentHash |-> pack.content_hash, updatedTs |-> t]]

\* _handle, knowledge_get
knowledge_get(packs, env) ==
    IF RegistryToken # "" /\ ~_check_token(env.registryToken)
    THEN [packs |-> packs, reply |-> Error(env, "invalid registry token")]
    ELSE IF env.packId = ""
    THEN [packs |-> packs, reply |-> Error(env, "missing id")]
    ELSE IF env.packId \notin DOMAIN packs
    THEN [packs |-> packs, reply |-> Error(env, "pack not found")]
    ELSE [packs |-> packs,
          reply |-> [id |-> env.id, type |-> "knowledge_get_result",
                     pack |-> pack_to_dict(packs[env.packId])]]

\* the frame loop's answer to a knowledge frame
knowledge_handle(packs, env, t) ==
    IF env.type = "knowledge_publish" THEN knowledge_publish(packs, env, t)
    ELSE knowledge_get(packs, env)

\* a client sends a knowledge frame on its open connection
KnowIssue(ws, env) ==
    /\ steps < MaxSteps
    /\ ws \in open
    /\ pend[ws].pc = "idle"
    /\ env.type = "knowledge_publish" /\ env.packId = "" =>
          Cardinality(FreeDrawn(knowledge_packs))
            > Cardinality({ w \in Conns : /\ pend[w].pc = "req"
                                          /\ pend[w].env.type = "knowledge_publish"
                                          /\ pend[w].env.packId = "" })
    /\ pend' = [pend EXCEPT ![ws] = [pc |-> "req", env |-> env, seen |-> {}]]
    /\ steps' = steps + 1
    /\ UNCHANGED <<nodes, cap_index, reservations, ws_to_node, open, now, issued,
                   last, reply, settled, awarded, acked>>
    /\ UNCHANGED relayVars
    /\ UNCHANGED limitVars
    /\ UNCHANGED clientVars
    /\ UNCHANGED storeVars

\* the handler of ws reads the knowledge frame and runs up to its ws.send()
KnowHandle(ws) ==
    /\ pend[ws].pc = "req"
    /\ pend[ws].env.type \in {"knowledge_publish", "knowledge_get"}
    /\ LET env == pend[ws].env
           o == knowledge_handle(knowledge_packs, env, now)
       IN  /\ knowledge_packs' = o.packs
           /\ reply' = o.reply
           /\ pend' = [pend EXCEPT ![ws] =
                          [pc |-> "reply", env |-> env, reply |-> o.reply, seen |-> {}]]
    /\ last' = [type |-> pend[ws].env.type, reservationId |-> NoRid]
    /\ UNCHANGED <<nodes, cap_index, reservations, ws_to_node, open, now, issued,
                   settled, awarded, steps, acked, fs, srv>>
    /\ UNCHANGED relayVars
    /\ UNCHANGED limitVars
    /\ UNCHANGED clientVars

NextKnow ==
    \/ \E env \in ClientRegisters : FirstFrame(env)
    \/ \E ws \in Conns, env \in KnowledgeFrames : KnowIssue(ws, env)
    \/ \E ws \in Conns : KnowHandle(ws)
    \/ \E ws \in Conns : Deliver(ws)
    \/ \E t \in Times : Tick(t)

SpecKnow == Init /\ [][NextKnow]_allVars

(***************************************************************************)
(* Knowledge packs: ownership                                              *)
(***************************************************************************)
\* the publishes answered knowledge_publish_ok whose reply is still in flight
PublishedOk ==
    { ws \in Conns : /\ pend[ws].pc = "reply"
                     /\ pend[ws].env.type = "knowledge_publish"
                     /\ pend[ws].reply.type = "knowledge_publish_ok" }

\* C32: a publish for an existing pack succeeds only if its owner is the
\* stored ownerNode and allowUpdate is set; it then keeps ownerNode and
\* createdTs and stores the new content with its SHA-256; otherwise it is
\* answered with an error (owner mismatch, pack exists) and the store is
\* unchanged. In every interleaving of publishes on different connections,
\* the publishes acknowledged for a pack all carry the pack's owner.
C32_OwnerFixed ==
    /\ \A env \in PublishFrames :
          LET p == env.packId
              o == knowledge_publish(knowledge_packs, env, now)
          IN  p \in DOMAIN knowledge_packs =>
                 IF o.reply.type = "knowledge_publish_ok"
                 THEN /\ env.ownerNode = knowledge_packs[p].owner_node
                      /\ env.allowUpdate
                      /\ DOMAIN o.packs = DOMAIN knowledge_packs
                      /\ \A q \in DOMAIN knowledge_packs \ {p} : o.packs[q] = knowledge_packs[q]
                      /\ o.packs[p].owner_node = knowledge_packs[p].owner_node
                      /\ o.packs[p].created_ts = knowledge_packs[p].created_ts
                      /\ o.packs[p].updated_ts = now
                      /\ o.packs[p].content = env.content
                      /\ o.packs[p].content_hash = sha256(env.content)
                 ELSE /\ o.reply.type = "error" /\ o.reply.id = env.id
                      /\ o.packs = knowledge_packs
                      /\ (env.registryToken = RegistryToken /\ env.ownerNode # NoNode
                          /\ env.content \in {"x", "yy"}) =>
                            o.reply.message =
                               IF env.ownerNode # knowledge_packs[p].owner_node
                               THEN "owner mismatch" ELSE "pack exists (set allowUpdate)"
    /\ \A ws \in PublishedOk :
          /\ pend[ws].reply.packId \in DOMAIN knowledge_packs
          /\ knowledge_packs[pend[ws].reply.packId].owner_node = pend[ws].env.ownerNode
    /\ \A p \in DOMAIN knowledge_packs :
          /\ knowledge_packs[p].content_hash = sha256(knowledge_packs[p].content)
          /\ knowledge_packs[p].created_ts <= knowledge_packs[p].updated_ts

\* two first-time publishes of the same pack by different owners were in
\* flight together: one is acknowledged, the other is answered owner mismatch
C32_Witness ==
    \E w1 \in Conns, w2 \in Conns :
        /\ w1 \in PublishedOk
        /\ pend[w2].pc = "reply" /\ pend[w2].env.type = "knowledge_publish"
        /\ pend[w2].env.packId = NamedPack /\ pend[w1].env.packId = NamedPack
        /\ pend[w2].env.ownerNode # pend[w1].env.ownerNode
        /\ pend[w2].env.allowUpdate
        /\ pend[w2].reply.type = "error" /\ pend[w2].reply.message = "owner mismatch"
        /\ knowledge_packs[NamedPack].created_ts = knowledge_packs[NamedPack].updated_ts

\* an update by the owner went through: createdTs kept, new content and hash
C32_Updated ==
    /\ NamedPack \in DOMAIN knowledge_packs
    /\ knowledge_packs[NamedPack].created_ts < knowledge_packs[NamedPack].updated_ts
    /\ knowledge_packs[NamedPack].content = "yy"
    /\ knowledge_packs[NamedPack].content_hash = "5a0e"
    /\ last.type = "knowledge_publish" /\ reply.type = "knowledge_publish_ok"

(***************************************************************************)
(* Requests that name something unknown                                    *)
(***************************************************************************)
\* the frame names a node, a payer or a reservation the registry does not hold
NamesUnknown(env) ==
    \/ env.type \in {"resolve", "reserve", "award", "report"} /\ env.nodeId \notin DOMAIN nodes
    \/ env.type = "reserve" /\ env.payerNode \notin DOMAIN nodes
    \/ env.type \in {"commit", "cancel"} /\ env.reservationId \notin DOMAIN reservations

\* the frame is answered with an error carrying its id, the state unchanged
ErrorOnly(env, o) ==
    /\ o.reply.type = "error" /\ o.reply.id = env.id
    /\ o.nodes = nodes /\ o.cap_index = cap_index /\ o.reservations = reservations
    /\ o.ws_to_node = ws_to_node

\* C33: a resolve, reserve, award or report naming an unknown node, and a
\* commit or cancel naming an unknown reservation, is answered with an error
\* envelope carrying the request id and leaves the registry state unchanged.
C33_UnknownRefused ==
    \A env \in Frames : \A ws \in Conns :
        NamesUnknown(env) => ErrorOnly(env, _handle(env, ws, now))

\* the same for every such request but the report
UnknownRefusedButReport ==
    \A env \in Frames : \A ws \in Conns :
        (NamesUnknown(env) /\ env.type # "report") => ErrorOnly(env, _handle(env, ws, now))

\* a report naming an unknown node with a valid token is acknowledged, the
\* state unchanged
UnknownReportAcked ==
    \A env \in Frames : \A ws \in Conns :
        (env.type = "report" /\ env.nodeId \notin DOMAIN nodes /\ env.nodeId # NoNode
         /\ env.registryToken = RegistryToken) =>
            LET o == _handle(env, ws, now)
            IN  o.reply = [id |-> env.id, type |-> "report_ok"] /\ o.nodes = nodes

\* a knowledge_get naming an unknown pack is answered with an error carrying
\* the request id, the store unchanged
UnknownPackRefused ==
    \A env \in GetFrames :
        env.packId \notin DOMAIN knowledge_packs =>
            LET o == knowledge_get(knowledge_packs, env)
            IN  o.reply.type = "error" /\ o.reply.id = env.id /\ o.packs = knowledge_packs

\* a report was acknowledged while the registry holds no node
ReportOfUnknownAcked ==
    /\ last.type = "report" /\ reply.type = "report_ok"
    /\ nodes = << >>

\* ---------------------------------------------------------------------------
\* Errors raised while a frame is handled (registry_server.py 169-188).
\* The frame loop protects Envelope.from_json only; _handle runs under the
\* handler's outer try, whose except clauses end the loop and whose finally
\* clause takes the connection's node offline.
\* ---------------------------------------------------------------------------

\* The JSON values a client puts in the points field of an award.
PointsText == {"1", "2", "\"ten\""}

\* Python's int() of the decoded value: a number converts, other text raises
\* ValueError.
int(text) ==
    CASE text = "1" -> [ok |-> TRUE, value |-> 1]
      [] text = "2" -> [ok |-> TRUE, value |-> 2]
      [] OTHER -> [ok |-> FALSE, value |-> 0]

AwardTexts ==
    { [id |-> RequestId, type |-> "award", nodeId |-> n, points |-> k, payerNode |-> NoNode,
       registryToken |-> tok] :
         n \in NodeIds, k \in PointsText, tok \in Tokens }

\* The outcome of _handle for an award frame: the exception it raises, if any,
\* and the state it leaves. int() is reached after the token check (401); the
\* snapshot is written after the award and before award_ok is sent (410-412).
handle_award(env, ws, t, disk_ok) ==
    IF _check_token(env.registryToken) /\ ~int(env.points).ok
    THEN [raised |-> "ValueError", out |-> Unchanged([type |-> "none"])]
    ELSE LET o == _handle([env EXCEPT !.points = int(env.points).value], ws, t)
         IN  IF o.reply.type = "award_ok" /\ ~disk_ok
             THEN [raised |-> "OSError", out |-> [o EXCEPT !.reply = [type |-> "none"]]]
             ELSE [raised |-> "no", out |-> o]

\* The finally clause of _handler applied to the state the frame left.
handler_finally(o, ws, t) ==
    IF ws \in DOMAIN o.ws_to_node
    THEN [o EXCEPT !.ws_to_node = [w \in DOMAIN o.ws_to_node \ {ws} |-> o.ws_to_node[w]],
                   !.nodes = set_offline(o.nodes, o.ws_to_node[ws], t)]
    ELSE o

\* One award frame of an open connection, with the disk accepting the
\* snapshot or not.
AwardFrameOrRaise(ws, env, disk_ok) ==
    /\ steps < MaxSteps
    /\ ws \in open
    /\ UNCHANGED wireVars
    /\ LET h == handle_award(env, ws, now, disk_ok)
       IN  /\ Apply(IF h.raised = "no" THEN h.out ELSE handler_finally(h.out, ws, now))
           /\ open' = IF h.raised = "no" THEN open ELSE open \ {ws}
           /\ last' = [type |-> IF h.raised = "no" THEN "award" ELSE "raised",
                       reservationId |-> NoRid, ws |-> ws, error |-> h.raised]
    /\ steps' = steps + 1
    /\ UNCHANGED <<now, pend, acked>>

NextErr ==
    \/ \E env \in ClientRegisters : FirstFrame(env)
    \/ \E ws \in Conns, env \in AwardTexts, disk_ok \in BOOLEAN : AwardFrameOrRaise(ws, env, disk_ok)
    \/ \E ws \in Conns : Frame(ws, Garbled)
    \/ \E ws \in Conns : Close(ws)
    \/ \E t \in Times : Tick(t)

SpecErr == Init /\ [][NextErr]_allVars

\* C34: a frame whose handling raised a non-transport error leaves the
\* requester's connection open, so that its following frames are processed.
C34_RaiseKeepsConnection ==
    last.type = "raised" => last.ws \in open

\* What the registry does instead: the raise ends the handler, the connection
\* is gone and no node is bound to it any more.
RaiseEndsConnection ==
    last.type = "raised" => last.ws \notin open /\ last.ws \notin DOMAIN ws_to_node

AwardRaisedValueError ==
    last.type = "raised" /\ last.error = "ValueError"

AwardRaisedOnSave ==
    last.type = "raised" /\ last.error = "OSError" /\ \E n \in DOMAIN awarded : awarded[n] > 0

\* ---------------------------------------------------------------------------
\* The snapshot file (registry_state.py 215-255).
\* fs.path is the file at the state path, fs.tmp the file save() writes first;
\* fs.pc is the position of the save() under way, fs.data its snapshot and
\* fs.prev the state file when it began. fs.path_of and fs.data_of remember
\* the registry state each snapshot was taken of; fs.damaged tells that the
\* state file was altered from outside the registry.
\* ---------------------------------------------------------------------------

\* a file that holds only the beginning of a document (json.loads raises)
Truncated == [kind |-> "truncated"]

RECURSIVE SeqOf(_)
\* the values of a dict in one order
SeqOf(S) ==
    IF S = {} THEN << >>
    ELSE LET x == CHOOSE y \in S : TRUE
         IN  <<x>> \o SeqOf(S \ {x})

to_dict(e) ==
    [ nodeId |-> e.node_id,
      nodeName |-> e.node_name,
      endpointUrl |-> e.endpoint_url,
      capabilities |-> e.capabilities,
      pricePoints |-> e.price_points,
      online |-> e.online,
      lastSeenTs |-> e.last_seen_ts,
      completedTasks |-> e.completed_tasks,
      earnedPoints |-> e.earned_points,
      balance |-> e.balance,
      spentPoints |-> e.spent_points,
      heldPoints |-> e.held_points,
      successCount |-> e.success_count,
      failCount |-> e.fail_count,
      totalLatencyMs |-> e.total_latency_ms ]

\* The document save() dumps: three lists. bad is 0 in every document the
\* registry writes; in a damaged file it is the position of a node item whose
\* balance is no longer a number.
snapshot(ns, rs, ps) ==
    LET ids == SeqOf(DOMAIN ns)
        rids == SeqOf(DOMAIN rs)
        pids == SeqOf(DOMAIN ps)
    IN  [ kind |-> "json",
          nodes |-> [i \in 1..Len(ids) |-> to_dict(ns[ids[i]])],
          reservations |-> [i \in 1..Len(rids) |-> rs[rids[i]]],
          knowledgePacks |-> [i \in 1..Len(pids) |-> pack_to_dict(ps[pids[i]])],
          bad |-> 0 ]

\* the dict a loop of load() builds from the first n items of a list
Keyed(items, n, key(_), value(_)) ==
    [ k \in { key(items[i]) : i \in 1..n } |->
        value(items[CHOOSE i \in 1..n :
                        /\ key(items[i]) = k
                        /\ \A j \in (i + 1)..n : key(items[j]) # k]) ]

NodeKey(item) == item.nodeId
ReservationKey(item) == item.id
PackKey(item) == item.id
Same(item) == item

RECURSIVE load_index(_, _)
\* cap_index after _reindex(entry, None) of the first n node items
load_index(items, n) ==
    IF n = 0 THEN << >>
    ELSE _reindex(load_index(items, n - 1), from_dict(items[n]), from_dict(items[n]), FALSE)

EmptyState ==
    [ nodes |-> << >>, cap_index |-> << >>, reservations |-> << >>, knowledge_packs |-> << >> ]

\* load() into the state of a registry that has just been constructed.
load(doc) ==
    IF doc.kind = "absent" THEN EmptyState
    ELSE IF doc.kind = "truncated" THEN EmptyState
    ELSE IF doc.bad # 0
    THEN [ EmptyState EXCEPT
             !.nodes = Keyed(doc.nodes, doc.bad - 1, NodeKey, from_dict),
             !.cap_index = load_index(doc.nodes, doc.bad - 1) ]
    ELSE [ nodes |-> Keyed(doc.nodes, Len(doc.nodes), NodeKey, from_dict),
           cap_index |-> load_index(doc.nodes, Len(doc.nodes)),
           reservations |-> Keyed(doc.reservations, Len(doc.reservations),
                                  ReservationKey, Same),
           knowledge_packs |-> Keyed(doc.knowledgePacks, Len(doc.knowledgePacks),
                                     PackKey, pack_from_dict) ]

\* save() up to the end of its locked block: the snapshot is taken.
begin_save(f, ns, rs, ps) ==
    [ f EXCEPT !.pc = "dumped", !.data = snapshot(ns, rs, ps),
               !.data_of = Stored(ns, rs, ps), !.prev = f.path ]

\* the replies after which the handler has saved the state
SavedReplies ==
    { "register_ok", "update_ok", "award_ok", "report_ok", "reserve_ok", "commit_ok",
      "cancel_ok", "knowledge_publish_ok" }

AfterReply(f, rep, ns, rs, ps) ==
    IF rep.type \in SavedReplies THEN begin_save(f, ns, rs, ps) ELSE f

\* the first frame of a connection, up to the snapshot of its save()
SavedFirstFrame(env) ==
    /\ steps < MaxSteps
    /\ fs.pc = "idle"
    /\ open # Conns
    /\ LET h == first_frame(env, NewConn, now)
       IN  /\ Apply(h.out)
           /\ open' = IF h.stays THEN open \cup {NewConn} ELSE open
           /\ fs' = AfterReply(fs, h.out.reply, h.out.nodes, h.out.reservations,
                               knowledge_packs)
    /\ last' = Handled(env)
    /\ steps' = steps + 1
    /\ UNCHANGED <<now, pend, acked, knowledge_packs>>
    /\ UNCHANGED relayVars
    /\ UNCHANGED limitVars
    /\ UNCHANGED clientVars
    /\ UNCHANGED srv

\* a later frame of a connection, up to the snapshot of its save()
SavedFrame(ws, env) ==
    /\ steps < MaxSteps
    /\ fs.pc = "idle"
    /\ ws \in open
    /\ RidAvailable(env)
    /\ LET o == frame_loop(env, ws, now)
       IN  /\ Apply(o)
           /\ fs' = AfterReply(fs, o.reply, o.nodes, o.reservations, knowledge_packs)
    /\ last' = Handled(env)
    /\ steps' = steps + 1
    /\ UNCHANGED <<open, now, pend, acked, knowledge_packs>>
    /\ UNCHANGED relayVars
    /\ UNCHANGED limitVars
    /\ UNCHANGED clientVars
    /\ UNCHANGED srv

\* a knowledge_publish frame, up to the snapshot of its save()
SavedPublish(ws, env) ==
    /\ steps < MaxSteps
    /\ fs.pc = "idle"
    /\ ws \in open
    /\ env.packId = "" => FreeDrawn(knowledge_packs) # {}
    /\ LET o == knowledge_publish(knowledge_packs, env, now)
       IN  /\ knowledge_packs' = o.packs
           /\ reply' = o.reply
           /\ fs' = AfterReply(fs, o.reply, nodes, reservations, o.packs)
    /\ last' = [type |-> env.type, reservationId |-> NoRid]
    /\ steps' = steps + 1
    /\ UNCHANGED <<nodes, cap_index, reservations, ws_to_node, open, now, issued,
                   settled, awarded, pend, acked>>
    /\ UNCHANGED relayVars
    /\ UNCHANGED limitVars
    /\ UNCHANGED clientVars
    /\ UNCHANGED srv

RegistryUnchanged ==
    /\ UNCHANGED vars
    /\ UNCHANGED relayVars
    /\ UNCHANGED limitVars
    /\ UNCHANGED clientVars
    /\ UNCHANGED srv
    /\ UNCHANGED knowledge_packs

\* tmp.write_text(...): the .tmp file is opened, which empties it, ...
SaveOpen ==
    /\ fs.pc = "dumped"
    /\ fs' = [fs EXCEPT !.pc = "opened", !.tmp = Truncated]
    /\ RegistryUnchanged

\* ... and the document is written to it.
SaveWrite ==
    /\ fs.pc = "opened"
    /\ fs' = [fs EXCEPT !.pc = "written", !.tmp = fs.data]
    /\ RegistryUnchanged

\* tmp.replace(path): one rename.
SaveReplace ==
    /\ fs.pc = "written"
    /\ fs' = [fs EXCEPT !.pc = "idle", !.path = fs.tmp, !.tmp = NoFile,
                        !.path_of = fs.data_of, !.damaged = FALSE]
    /\ RegistryUnchanged

\* The process dies at any position of save() or between two saves and is
\* started again: start() loads the state file into a new RegistryState.
CrashAndStart ==
    /\ steps < MaxSteps
    /\ LET l == load(fs.path)
       IN  /\ nodes' = l.nodes
           /\ cap_index' = l.cap_index
           /\ reservations' = l.reservations
           /\ knowledge_packs' = l.knowledge_packs
    /\ ws_to_node' = << >>
    /\ open' = {}
    /\ pend' = [ws \in Conns |-> Idle]
    /\ reply' = [type |-> "none"]
    /\ last' = [type |-> "start", reservationId |-> NoRid]
    /\ fs' = [fs EXCEPT !.pc = "idle"]
    /\ steps' = steps + 1
    /\ UNCHANGED <<now, issued, settled, awarded, acked>>
    /\ UNCHANGED relayVars
    /\ UNCHANGED limitVars
    /\ UNCHANGED clientVars
    /\ UNCHANGED srv

\* The state file is altered from outside while no save() runs: cut short, or
\* the balance of its bad-th node item replaced by text.
Damage(bad) ==
    /\ fs.pc = "idle"
    /\ fs.path.kind = "json"
    /\ ~fs.damaged
    /\ bad <= Len(fs.path.nodes)
    /\ fs' = [fs EXCEPT !.damaged = TRUE,
                        !.path = IF bad = 0 THEN Truncated ELSE [fs.path EXCEPT !.bad = bad]]
    /\ RegistryUnchanged

SaveFrames ==
    { env \in LedgerFrames : \/ env.type = "commit"
                             \/ env.type = "reserve" /\ env.points = 1 }

NextSave ==
    \/ \E env \in ClientRegisters : SavedFirstFrame(env)
    \/ \E ws \in Conns, env \in SaveFrames : SavedFrame(ws, env)
    \/ \E ws \in Conns, env \in PublishFrames : SavedPublish(ws, env)
    \/ SaveOpen
    \/ SaveWrite
    \/ SaveReplace
    \/ CrashAndStart
    \/ \E bad \in 0..Len(NodeOrder) : Damage(bad)

SpecSave == Init /\ [][NextSave]_allVars

\* C35: at every position of save() the state file is the complete previous
\* snapshot or the complete new one, loading it gives the nodes, reservations
\* and knowledge packs the registry had when it was taken, and a state file
\* damaged from outside loads as the empty state.
C35_SnapshotOrEmpty ==
    LET l == load(fs.path)
    IN  IF fs.damaged
        THEN l = EmptyState
        ELSE /\ fs.path \in {fs.prev, fs.data}
             /\ fs.path.kind \in {"absent", "json"}
             /\ Stored(l.nodes, l.reservations, l.knowledge_packs) = fs.path_of

\* The part the registry keeps: its own saves never leave a partial state file
\* and a snapshot loads as the state it was taken of.
SaveIsAtomic ==
    ~fs.damaged =>
        /\ fs.path \in {fs.prev, fs.data}
        /\ fs.path.kind \in {"absent", "json"}
        /\ fs.path.kind = "json" => fs.path.bad = 0

SnapshotRoundTrip ==
    ~fs.damaged =>
        LET l == load(fs.path)
        IN  Stored(l.nodes, l.reservations, l.knowledge_packs) = fs.path_of

\* a state file that is not a JSON document loads as the empty state
UnreadableLoadsEmpty ==
    fs.path.kind = "truncated" => load(fs.path) = EmptyState

\* a state file with one malformed node item loads the items before it
MalformedItemLoadsPart ==
    /\ fs.damaged
    /\ fs.path.kind = "json"
    /\ load(fs.path).nodes # << >>
    /\ load(fs.path).reservations = << >>
    /\ fs.path.reservations # << >>

CrashedWhileWriting ==
    /\ last.type = "start"
    /\ fs.tmp = Truncated
    /\ fs.path.kind = "json"
    /\ nodes # << >>

SnapshotHoldsAll ==
    /\ ~fs.damaged
    /\ fs.path.kind = "json"
    /\ fs.path.nodes # << >>
    /\ fs.path.knowledgePacks # << >>

SnapshotHoldsReservation ==
    /\ ~fs.damaged
    /\ fs.path.kind = "json"
    /\ fs.path.reservations # << >>
    /\ last.type = "start"
    /\ reservations # << >>

\* ---------------------------------------------------------------------------
\* RegistryServer.start, its background loops and stop
\* (registry_server.py 63-114, 601-626).
\* srv.task gives each task as "none" (not created), "running", "failed" (its
\* coroutine ended by an exception) or "cancelled"; srv.stop is the position
\* of stop(): the task it deals with next, "snapshot", "close", "done", or
\* "raised" when an exception left it.
\* ---------------------------------------------------------------------------

\* start(): the socket listens and the configured tasks are created; the save
\* task exists exactly when there is a state path.
Start(loops) ==
    /\ srv.up = "new"
    /\ srv' = [srv EXCEPT !.up = "serving", !.state_path = ("save" \in loops),
                          !.task = [l \in Loops |-> IF l \in loops THEN "running" ELSE "none"]]
    /\ UNCHANGED vars
    /\ UNCHANGED relayVars
    /\ UNCHANGED limitVars
    /\ UNCHANGED clientVars
    /\ UNCHANGED <<knowledge_packs, fs>>

\* save() as the event loop sees it: one step, from the snapshot to the rename
save(f, ns, rs, ps) ==
    [ f EXCEPT !.prev = f.path, !.data = snapshot(ns, rs, ps), !.data_of = Stored(ns, rs, ps),
               !.path = snapshot(ns, rs, ps), !.path_of = Stored(ns, rs, ps),
               !.damaged = FALSE ]

LoopUnchanged ==
    /\ UNCHANGED relayVars
    /\ UNCHANGED limitVars
    /\ UNCHANGED clientVars
    /\ UNCHANGED knowledge_packs

\* one iteration of _save_loop; write_text raises OSError when the disk
\* refuses the file, and nothing in the loop catches it.
SaveLoop(disk_ok) ==
    /\ srv.task["save"] = "running"
    /\ IF disk_ok
       THEN /\ fs' = save(fs, nodes, reservations, knowledge_packs)
            /\ UNCHANGED srv
       ELSE /\ srv' = [srv EXCEPT !.task["save"] = "failed"]
            /\ UNCHANGED fs
    /\ UNCHANGED vars
    /\ LoopUnchanged

\* one iteration of _ttl_loop
TtlLoop(t) ==
    /\ srv.task["ttl"] = "running"
    /\ TtlSweep(t)

\* one iteration of _preauth_loop: the expiry, then the snapshot if any
\* reservation expired.
PreauthLoop(t, disk_ok) ==
    /\ steps < MaxSteps
    /\ srv.task["preauth"] = "running"
    /\ LET r == expire_reservations(nodes, reservations, PreauthTtl, t)
           saves == r.count > 0 /\ srv.state_path
       IN  /\ nodes' = r.nodes
           /\ reservations' = r.reservations
           /\ settled' = Settle(settled, reservations,
                                DOMAIN reservations \ DOMAIN r.reservations, "expire")
           /\ reply' = [type |-> "none", count |-> r.count]
           /\ IF saves /\ disk_ok
              THEN /\ fs' = save(fs, r.nodes, r.reservations, knowledge_packs)
                   /\ UNCHANGED srv
              ELSE IF saves
              THEN /\ srv' = [srv EXCEPT !.task["preauth"] = "failed"]
                   /\ UNCHANGED fs
              ELSE UNCHANGED <<fs, srv>>
    /\ last' = [type |-> "preauth_sweep", reservationId |-> NoRid]
    /\ now' = t
    /\ steps' = steps + 1
    /\ UNCHANGED <<cap_index, ws_to_node, open, issued, awarded, pend, acked>>
    /\ LoopUnchanged

\* the order in which stop() deals with the tasks
StopOrder == <<"save", "ttl", "preauth", "metrics", "snapshot", "close", "done">>

AfterStop(pos) == StopOrder[(CHOOSE i \in 1..Len(StopOrder) : StopOrder[i] = pos) + 1]

\* stop() is called on a started server.
StopCalled ==
    /\ srv.up = "serving"
    /\ srv.stop = "no"
    /\ srv' = [srv EXCEPT !.stop = "save"]
    /\ UNCHANGED vars
    /\ UNCHANGED fs
    /\ LoopUnchanged

\* `task.cancel(); with contextlib.suppress(Exception): await task`.
\* Awaiting a task that was running raises CancelledError, which is not an
\* Exception and leaves stop(); awaiting a task that had failed raises its
\* exception, which is suppressed.
StopTask ==
    /\ srv.stop \in Loops
    /\ srv' = IF srv.task[srv.stop] = "running"
              THEN [srv EXCEPT !.task[srv.stop] = "cancelled", !.stop = "raised"]
              ELSE [srv EXCEPT !.task[srv.stop] = "none", !.stop = AfterStop(srv.stop)]
    /\ UNCHANGED vars
    /\ UNCHANGED fs
    /\ LoopUnchanged

\* the final snapshot (110-111), then the socket is closed (112-114)
StopSnapshot(disk_ok) ==
    /\ srv.stop = "snapshot"
    /\ IF ~srv.state_path
       THEN /\ srv' = [srv EXCEPT !.stop = "close"]
            /\ UNCHANGED fs
       ELSE IF disk_ok
       THEN /\ srv' = [srv EXCEPT !.stop = "close"]
            /\ fs' = save(fs, nodes, reservations, knowledge_packs)
       ELSE /\ srv' = [srv EXCEPT !.stop = "raised"]
            /\ UNCHANGED fs
    /\ UNCHANGED vars
    /\ LoopUnchanged

StopClose ==
    /\ srv.stop = "close"
    /\ srv' = [srv EXCEPT !.stop = "done", !.up = "closed"]
    /\ UNCHANGED vars
    /\ UNCHANGED fs
    /\ LoopUnchanged

\* stop_public_service(handle) of a node's public service (public_service.py
\* 157-165): the register task is cancelled and awaited under `except
\* Exception`; _register_loop re-raises CancelledError (115-116), which leaves
\* the call before handle.server.stop().
stop_public_service(h) ==
    IF h.register_task = "running"
    THEN [h EXCEPT !.register_task = "cancelled", !.stop = "raised"]
    ELSE [h EXCEPT !.server = "closed", !.stop = "done"]

StopPublicService ==
    /\ srv.public.stop = "no"
    /\ srv' = [srv EXCEPT !.public = stop_public_service(srv.public)]
    /\ UNCHANGED vars
    /\ UNCHANGED fs
    /\ LoopUnchanged

Serving == srv.up = "serving"

\* the tasks of a server with every option set, of one with a state file and
\* reservation expiry only, and of one with no option
Configs == {Loops, {"save", "preauth"}, {}}

ServerFrames ==
    { env \in LedgerFrames : env.type = "reserve" /\ env.points = 1 }

NextServer ==
    \/ \E loops \in Configs : Start(loops)
    \/ \E env \in ClientRegisters : Serving /\ FirstFrame(env)
    \/ \E ws \in Conns, env \in ServerFrames : Serving /\ Frame(ws, env)
    \/ \E disk_ok \in BOOLEAN : SaveLoop(disk_ok)
    \/ \E t \in Times : TtlLoop(t)
    \/ \E t \in Times, disk_ok \in BOOLEAN : PreauthLoop(t, disk_ok)
    \/ StopCalled
    \/ StopTask
    \/ \E disk_ok \in BOOLEAN : StopSnapshot(disk_ok)
    \/ StopClose
    \/ StopPublicService

SpecServer == Init /\ [][NextServer]_allVars

\* C36: the save loop, the TTL loop and the expiry loop of a serving registry
\* go on after an iteration that failed: none of them is ever ended by the
\* exception of an iteration.
C36_LoopsKeepRunning ==
    \A l \in {"save", "ttl", "preauth"} : srv.task[l] # "failed"

\* the TTL loop, whose iteration writes no file, is never ended by an exception
TtlLoopKeepsRunning ==
    srv.task["ttl"] # "failed"

\* the expiry loop ended by the snapshot of an iteration that had expired a
\* reservation, on a server that was not stopped
ExpiryLoopEnded ==
    /\ srv.task["preauth"] = "failed"
    /\ srv.stop = "no"
    /\ last.type = "preauth_sweep"
    /\ reply.count > 0

SaveLoopEnded ==
    /\ srv.task["save"] = "failed"
    /\ srv.stop = "no"
    /\ srv.up = "serving"

\* stop() has returned, normally or by an exception
StopEnded == srv.stop \in {"done", "raised"}

\* C37: stop() of a started server always runs to completion: when it has
\* ended, every background task is cancelled and cleared, the final snapshot
\* is written if there is a state path, and the socket is closed; when
\* stop_public_service has ended, the node server is stopped.
C37_StopCompletes ==
    /\ StopEnded =>
          /\ srv.stop = "done"
          /\ srv.up = "closed"
          /\ \A l \in Loops : srv.task[l] = "none"
          /\ srv.state_path => fs.path.kind = "json"
    /\ srv.public.stop # "no" =>
          /\ srv.public.stop = "done"
          /\ srv.public.server = "closed"

\* what stop() does when it is not left by an exception
StopDoneIsComplete ==
    srv.stop = "done" =>
        /\ srv.up = "closed"
        /\ \A l \in Loops : srv.task[l] = "none"
        /\ srv.state_path => fs.path.kind = "json"

\* stop() left by the CancelledError of the save task: the other tasks still
\* run, no snapshot was written and the socket still listens
StopLeftByCancel ==
    /\ srv.stop = "raised"
    /\ srv.task["save"] = "cancelled"
    /\ srv.task["ttl"] = "running"
    /\ srv.up = "serving"
    /\ nodes # << >>
    /\ fs.path = NoFile

StopCompleted ==
    /\ srv.stop = "done"
    /\ srv.state_path
    /\ nodes # << >>

PublicStopLeftByCancel ==
    /\ srv.public.stop = "raised"
    /\ srv.public.server = "listening"

\* ---------------------------------------------------------------------------
\* The ledger of one node over the operations that move points.
\* ---------------------------------------------------------------------------

\* register and update, reserve, commit, cancel, award with and without a
\* payer, report
LedgerOps == ClientRegisters \cup ClientUpdates \cup LedgerFrames

NextLedger ==
    \/ \E env \in ClientRegisters : FirstFrame(env)
    \/ \E ws \in Conns, env \in LedgerOps : Frame(ws, env)
    \/ \E t \in Times : PreauthSweep(t)

SpecLedger == Init /\ [][NextLedger]_allVars

\* what the ledger says a node was credited at its first registration
Credited(e) == e.balance + e.held_points + e.spent_points - e.earned_points

\* C38: for every node, balance + heldPoints + spentPoints - earnedPoints is
\* the initial points of its first registration, in every state reached by
\* register, update, reserve, commit, cancel, award, report and expiry.
C38_LedgerBalanced ==
    \A n \in DOMAIN nodes : Credited(nodes[n]) = InitialPoints

\* a node that paid itself by a committed reservation, holds points of a
\* second one and was awarded points
C38_Witness ==
    \E n \in DOMAIN nodes :
        /\ nodes[n].spent_points > 0
        /\ nodes[n].earned_points > nodes[n].spent_points
        /\ Credited(nodes[n]) = InitialPoints

C38_Expired ==
    /\ last.type = "preauth_sweep"
    /\ reply.count > 0
    /\ \E n \in DOMAIN nodes : nodes[n].earned_points > 0 /\ Credited(nodes[n]) = InitialPoints

\* ---------------------------------------------------------------------------
\* A node bound to two connections (registry_server.py 160-161, 183-188).
\* ---------------------------------------------------------------------------

NextBind ==
    \/ \E env \in ClientRegisters : FirstFrame(env)
    \/ \E ws \in Conns, env \in ClientUpdates : Frame(ws, env)
    \/ \E ws \in Conns : Close(ws)
    \/ \E t \in Times : Tick(t)

SpecBind == Init /\ [][NextBind]_allVars

\* the open connections a node is bound to
BoundConns(n) == { w \in open \cap DOMAIN ws_to_node : ws_to_node[w] = n }

\* C39: the close of a connection leaves online every node that is bound to
\* another connection that is still open.
C39_CloseKeepsBoundOnline ==
    last.type = "close" =>
        \A n \in DOMAIN nodes : BoundConns(n) # {} => nodes[n].online

\* What the registry does: the close of a connection takes the node it was
\* bound to offline, whatever else is bound to that node, ...
CloseTakesOffline ==
    [][\A ws \in open : (ws \in DOMAIN ws_to_node /\ ws \notin open')
          => ~nodes'[ws_to_node[ws]].online]_allVars

\* ... and the node is online again with the next update of the other
\* connection.
UpdateBringsOnline ==
    \A ws \in open \cap DOMAIN ws_to_node :
        \A env \in { e \in ClientUpdates : e.nodeId = ws_to_node[ws] } :
            LET o == _handle(env, ws, now)
            IN  o.reply.type = "update_ok" /\ o.nodes[env.nodeId].online

\* a node offline with a connection bound to it still open
OfflineWhileBound ==
    /\ last.type = "close"
    /\ \E n \in DOMAIN nodes : BoundConns(n) # {} /\ ~nodes[n].online

OnlineAgainByUpdate ==
    /\ last.type = "update"
    /\ reply.type = "update_ok"
    /\ Cardinality(open) = 1
    /\ \E n \in DOMAIN nodes : BoundConns(n) # {} /\ nodes[n].online

\* ---------------------------------------------------------------------------
\* Who may answer a relay_task (relay_server.py 103-132).
\* ---------------------------------------------------------------------------

\* what the relay does with a relay_result for rid that arrives on ws
ResultOn(ws, rid, payload) ==
    Relay_handler([id |-> rid, type |-> "relay_result", payload |-> payload], ws,
                  _nodes, _pending, internal_ids, NodeIdOf(ws), mono)

\* the request of a forwarded relay_task is pending and has not timed out
Waiting(rid) == rid \in DOMAIN _cleanup_pending(_pending, mono).pending

\* C40: when a relay_task has been forwarded to a node connection, a
\* relay_result with its id that arrives on any other connection leaves the
\* pending entry in place and sends no relay_response.
C40_OnlyTargetCompletes ==
    \A s \in sent : (s.env.type = "relay_task" /\ Waiting(s.env.id)) =>
        \A ws \in RelayConns \ {s.to}, p \in ResultPayloads :
            LET r == ResultOn(ws, s.env.id, p)
            IN  /\ s.env.id \in DOMAIN r.pending
                /\ \A x \in r.sends : x.env.type # "relay_response"

\* The connection the task was forwarded to completes the request.
TargetCompletes ==
    \A s \in sent : (s.env.type = "relay_task" /\ Waiting(s.env.id)) =>
        \A p \in ResultPayloads :
            LET r == ResultOn(s.to, s.env.id, p)
            IN  /\ s.env.id \notin DOMAIN r.pending
                /\ \E x \in r.sends : x.env.type = "relay_response" /\ x.env.payload = p

\* a relay_result that arrived on a connection that never said relay_hello
\* was passed on to the waiting client
ForeignResultPassedOn ==
    /\ got.server = "relay"
    /\ got.raw # Garbled
    /\ got.raw.type = "relay_result"
    /\ \A n \in DOMAIN _nodes : _nodes[n] # got.ws
    /\ ws_node_id[got.ws] = NoNode
    /\ \E x \in sent : x.env.type = "relay_response" /\ x.to # got.ws

====
